---------------------------- MODULE Spec2Model ----------------------------
(***************************************************************************)
(* Model of the transit accessibility engine of nyc-commute-planner:       *)
(*   utils/routing.ts    buildGraph, findReachableStations                 *)
(*   utils/distance.ts   calculateDistance, calculateWalkingTime,          *)
(*                       findNearestStations                               *)
(*   utils/isochrone.ts  generateStationBuffer, unionBuffers,              *)
(*                       createIsochrone                                   *)
(*   components/SubwayMap.tsx  the isochrone cache effect                  *)
(*                                                                         *)
(* Coordinates are integers in units of 1e-7 degree.  All stations and     *)
(* origins of the model lie on one meridian, where the great-circle        *)
(* distance turf.distance computes is proportional to the difference of    *)
(* the latitudes.  Distances are integers in units of 1e-7 mile.           *)
(* A JavaScript Map is a sequence of <<key, value>> pairs in insertion     *)
(* order, which is the order a Map iterates in.                            *)
(***************************************************************************)
EXTENDS Integers, Sequences, FiniteSets, TLC

VARIABLES
    network,            \* ProcessedNetwork {stations, edges}
    call,               \* engine: the last call made to the routing / isochrone functions
    ret,                \* engine: what that call returned
    loading,            \* useNetworkData: loading
    error,              \* useNetworkData: error !== null
    loaded,             \* useNetworkData: network !== null
    officeLocation,     \* SubwayMap state (NoLocation: null)
    travelTimeMinutes,  \* SubwayMap state
    isochrones,         \* SubwayMap state: Map from minutes to polygon or null
    isochroneCache,     \* isochroneCacheRef.current: Map from key to polygon or null
    log,                \* history: what the last run of the isochrone effect did
    meta,               \* history: for every key ever inserted, when and with what
    visited,            \* environment: number of distinct origins searched so far
    sharedGraph,        \* the Graph shared by the searches that run side by side
    searches            \* for each of these searches: its arguments and its locals

engineVars == <<network, call, ret>>

componentVars == <<loading, error, loaded, officeLocation, travelTimeMinutes,
                   isochrones, isochroneCache, log, meta, visited>>

searchVars == <<sharedGraph, searches>>

cacheVars == <<componentVars, searchVars>>

vars == <<network, call, ret, loading, error, loaded, officeLocation,
          travelTimeMinutes, isochrones, isochroneCache, log, meta, visited,
          sharedGraph, searches>>

(***************************************************************************)
(* Bounds of the model                                                     *)
(***************************************************************************)
MaxEdges == 3           \* edges of a network built for the engine
MaxOrigins == 27        \* distinct origins the user searches for
MaxSliderOrigins == 2   \* origins at which the user still changes the travel time
MaxTrips == 3           \* trips of a feed

\* larger than any travel time of the model
Inf == 1000 * 1000

(***************************************************************************)
(* JavaScript Map: get / has / set / delete / keys().next()                *)
(***************************************************************************)
MapIndex(m, k) ==
    IF \E i \in DOMAIN m : m[i][1] = k
    THEN CHOOSE i \in DOMAIN m : m[i][1] = k
    ELSE 0

MapHas(m, k) == MapIndex(m, k) # 0

\* only used where MapHas(m, k): the caller tests for undefined first
MapGet(m, k) == m[MapIndex(m, k)][2]

\* set keeps the position of a key that is present and appends a new one
MapSet(m, k, v) ==
    IF MapHas(m, k)
    THEN [m EXCEPT ![MapIndex(m, k)] = <<k, v>>]
    ELSE Append(m, <<k, v>>)

MapDelete(m, k) == SelectSeq(m, LAMBDA e : e[1] # k)

MapKeySet(m) == { m[i][1] : i \in DOMAIN m }

(***************************************************************************)
(* routing.ts: buildGraph                                                  *)
(***************************************************************************)
\* graph.get(id): the edge list, or undefined (no list) for an unknown id
GraphHas(graph, id) == id \in DOMAIN graph

RECURSIVE GraphAddEdges(_, _, _)
GraphAddEdges(graph, edges, i) ==
    IF i > Len(edges) THEN graph
    ELSE LET edge == edges[i]
         IN GraphAddEdges(
                IF GraphHas(graph, edge.fromId)
                THEN [graph EXCEPT ![edge.fromId] = Append(@, edge)]
                ELSE graph,
                edges, i + 1)

\* mutant: lists only for the stations that edges leave from
buildGraphOfEdges(net) ==
    LET ids == { net.edges[i].fromId : i \in DOMAIN net.edges }
    IN GraphAddEdges([id \in ids |-> <<>>], net.edges, 1)

\* lines 14-31
buildGraph(net) ==
    LET ids == { net.stations[i].id : i \in DOMAIN net.stations }
    IN GraphAddEdges([id \in ids |-> <<>>], net.edges, 1)

(***************************************************************************)
(* routing.ts: findReachableStations                                       *)
(* The search state is [dist |-> Map, queue |-> sequence of <<time, id>>]. *)
(***************************************************************************)
\* Array.prototype.sort with (a, b) => a[0] - b[0]: stable, ascending time
RECURSIVE InsertByTime(_, _)
InsertByTime(sorted, x) ==
    IF sorted = <<>> THEN <<x>>
    ELSE IF sorted[Len(sorted)][1] <= x[1] THEN Append(sorted, x)
    ELSE Append(InsertByTime(SubSeq(sorted, 1, Len(sorted) - 1), x),
                sorted[Len(sorted)])

RECURSIVE SortQueue(_)
SortQueue(q) ==
    IF q = <<>> THEN <<>>
    ELSE InsertByTime(SortQueue(SubSeq(q, 1, Len(q) - 1)), q[Len(q)])

\* mutant: the remaining time is compared with the limit of the search
SeedsStartAgainstLimit(start, maxTimeSec) == start.remainingTimeSec >= maxTimeSec

\* lines 53-58: a start station is seeded when its remaining time is not negative
SeedsStart(start, maxTimeSec) == start.remainingTimeSec >= 0

RECURSIVE SeedStarts(_, _, _, _)
SeedStarts(st, startStations, i, maxTimeSec) ==
    IF i > Len(startStations) THEN st
    ELSE LET start == startStations[i]
         IN SeedStarts(
                IF SeedsStart(start, maxTimeSec)
                THEN [dist  |-> MapSet(st.dist, start.stationId, 0),
                      queue |-> Append(st.queue, <<0, start.stationId>>)]
                ELSE st,
                startStations, i + 1, maxTimeSec)

\* mutant: only the first path found to a station is recorded
ImprovesOnlyUnseen(dist, toId, newTime) == ~MapHas(dist, toId)

\* lines 82-85: the path found is recorded when it is the first or a shorter one
Improves(dist, toId, newTime) ==
    ~MapHas(dist, toId) \/ newTime < MapGet(dist, toId)

\* lines 78-91: one edge of the station just popped
RelaxEdge(st, edge, currentTime, maxTimeSec) ==
    LET newTime == currentTime + edge.travelTimeSec
    IN IF newTime <= maxTimeSec /\ Improves(st.dist, edge.toId, newTime)
       THEN [dist  |-> MapSet(st.dist, edge.toId, newTime),
             queue |-> SortQueue(Append(st.queue, <<newTime, edge.toId>>))]
       ELSE st

RECURSIVE RelaxEdges(_, _, _, _, _)
RelaxEdges(st, edges, i, currentTime, maxTimeSec) ==
    IF i > Len(edges) THEN st
    ELSE RelaxEdges(RelaxEdge(st, edges[i], currentTime, maxTimeSec),
                    edges, i + 1, currentTime, maxTimeSec)

\* mutant: the head of the queue is read and left in the queue
Peek(queue) == queue

\* line 65: queue.shift() takes the head off the queue
Shift(queue) == Tail(queue)

\* lines 63-95: one iteration of the while loop (queue is not empty)
SearchIter(st, maxTimeSec, graph) ==
    LET currentTime == Head(st.queue)[1]
        currentId   == Head(st.queue)[2]
        shifted     == [dist |-> st.dist, queue |-> Shift(st.queue)]
    IN IF MapHas(st.dist, currentId) /\ currentTime > MapGet(st.dist, currentId)
       THEN shifted
       ELSE IF currentTime <= maxTimeSec /\ GraphHas(graph, currentId)
            THEN RelaxEdges(shifted, graph[currentId], 1, currentTime, maxTimeSec)
            ELSE shifted

RECURSIVE SearchLoop(_, _, _)
SearchLoop(st, maxTimeSec, graph) ==
    IF st.queue = <<>> THEN st
    ELSE SearchLoop(SearchIter(st, maxTimeSec, graph), maxTimeSec, graph)

\* lines 98-103: the entries of dist within the time limit, in dist's order
FilterWithinLimit(dist, maxTimeSec) ==
    SelectSeq(dist, LAMBDA e : e[2] <= maxTimeSec)

findReachableStations(startStations, maxTimeSec, graph) ==
    LET seeded == SeedStarts([dist |-> <<>>, queue |-> <<>>],
                             startStations, 1, maxTimeSec)
        sorted == [dist |-> seeded.dist, queue |-> SortQueue(seeded.queue)]
        final  == SearchLoop(sorted, maxTimeSec, graph)
    IN FilterWithinLimit(final.dist, maxTimeSec)


(***************************************************************************)
(* distance.ts                                                             *)
(***************************************************************************)
WALKING_SPEED_MPH == 3

\* 0.5 mile, in units of 1e-7 mile
DEFAULT_MAX_WALK_DISTANCE_MILES == 5000000

Abs(x) == IF x < 0 THEN -x ELSE x

\* turf.point throws "coordinates must contain numbers" for a coordinate that
\* is not a number (NaN, or the null that JSON makes of it)
PointThrows(station) == ~station.numeric

\* turf.distance in miles, here in units of 1e-7 mile: on one meridian
\* (lon1 = lon2 in every call of the model) it is the earth's radius times the
\* difference of the latitudes, 69 units for each 1e-7 degree
calculateDistance(lat1, lon1, lat2, lon2) == Abs(lat1 - lat2) * 69

\* Math.round(distanceMiles / walkSpeedMph * 3600), distance in 1e-7 mile:
\* seconds = d * 3600 / (speed * 10^7), rounded half up
calculateWalkingTime(distanceMiles) ==
    (2 * distanceMiles * 36 + WALKING_SPEED_MPH * 100000)
        \div (2 * WALKING_SPEED_MPH * 100000)

\* mutant: every station is kept, whatever its distance
WithinWalkAlways(distance, maxWalkDistanceMiles) == TRUE

\* line 76: the station is kept when it is within the walking distance
WithinWalk(distance, maxWalkDistanceMiles) == distance <= maxWalkDistanceMiles

RECURSIVE InsertByDistance(_, _)
InsertByDistance(sorted, x) ==
    IF sorted = <<>> THEN <<x>>
    ELSE IF sorted[Len(sorted)].distanceMiles <= x.distanceMiles
         THEN Append(sorted, x)
    ELSE Append(InsertByDistance(SubSeq(sorted, 1, Len(sorted) - 1), x),
                sorted[Len(sorted)])

\* results.sort((a, b) => a.distanceMiles - b.distanceMiles): stable
RECURSIVE SortByDistance(_)
SortByDistance(r) ==
    IF r = <<>> THEN <<>>
    ELSE InsertByDistance(SortByDistance(SubSeq(r, 1, Len(r) - 1)), r[Len(r)])

RECURSIVE NearestLoop(_, _, _, _, _, _)
NearestLoop(results, officeLat, officeLon, stations, i, maxWalkDistanceMiles) ==
    IF i > Len(stations) THEN results
    ELSE LET station  == stations[i]
             distance == calculateDistance(officeLat, officeLon,
                                           station.lat, station.lon)
         IN NearestLoop(
                IF WithinWalk(distance, maxWalkDistanceMiles)
                THEN Append(results,
                            [station        |-> station,
                             distanceMiles  |-> distance,
                             walkingTimeSec |-> calculateWalkingTime(distance)])
                ELSE results,
                officeLat, officeLon, stations, i + 1, maxWalkDistanceMiles)

\* [threw, results]: the call throws when turf.point rejects a station
findNearestStations(officeLat, officeLon, stations, maxWalkDistanceMiles) ==
    IF \E i \in DOMAIN stations : PointThrows(stations[i])
    THEN [threw |-> TRUE, results |-> <<>>]
    ELSE [threw   |-> FALSE,
          results |-> SortByDistance(
                          NearestLoop(<<>>, officeLat, officeLon, stations, 1,
                                      maxWalkDistanceMiles))]

(***************************************************************************)
(* isochrone.ts                                                            *)
(* A polygon is the set of the discs [center, radius] it is the union of.  *)
(***************************************************************************)
DEFAULT_MAX_TRAVEL_TIME_SEC == 1800

generateStationBuffer(station, distanceMiles) ==
    { [center |-> <<station.lon, station.lat>>, radius |-> distanceMiles] }

NoPolygon == {}

\* null for no buffers, the buffer itself for one, turf.union otherwise
unionBuffers(buffers) ==
    IF Len(buffers) = 0 THEN NoPolygon
    ELSE IF Len(buffers) = 1 THEN buffers[1]
    ELSE UNION { buffers[i] : i \in DOMAIN buffers }

\* line 95: the start stations that are left after filtering
ValidStart(s) == s.remainingTimeSec > 0

\* line 108: the nearby stations a search is run from
SearchedFrom(nearby, maxTravelTimeSec) == nearby.walkingTimeSec <= maxTravelTimeSec

\* mutant: the total time of the search run last replaces the one recorded
KeepsTotalOfLastSearch(map, stationId, totalTime) == TRUE

\* line 125: existingTime === undefined || totalTime < existingTime
KeepsTotal(map, stationId, totalTime) ==
    ~MapHas(map, stationId) \/ totalTime < MapGet(map, stationId)

\* lines 121-128: merge one search's result, keeping the smaller total time
RECURSIVE MergeReachable(_, _, _, _)
MergeReachable(map, reachableFromStart, i, walkingTimeSec) ==
    IF i > Len(reachableFromStart) THEN map
    ELSE LET stationId == reachableFromStart[i][1]
             totalTime == walkingTimeSec + reachableFromStart[i][2]
         IN MergeReachable(
                IF KeepsTotal(map, stationId, totalTime)
                THEN MapSet(map, stationId, totalTime)
                ELSE map,
                reachableFromStart, i + 1, walkingTimeSec)

\* lines 107-130; acc.searches records the arguments of each search made
RECURSIVE RoutingLoop(_, _, _, _, _)
RoutingLoop(acc, nearbyStations, i, maxTravelTimeSec, graph) ==
    IF i > Len(nearbyStations) THEN acc
    ELSE LET nearby == nearbyStations[i]
             startStation ==
                 << [stationId        |-> nearby.station.id,
                     remainingTimeSec |-> maxTravelTimeSec - nearby.walkingTimeSec] >>
             limit == maxTravelTimeSec - nearby.walkingTimeSec
         IN RoutingLoop(
                IF SearchedFrom(nearby, maxTravelTimeSec)
                THEN [map |-> MergeReachable(
                                  acc.map,
                                  findReachableStations(startStation, limit, graph),
                                  1, nearby.walkingTimeSec),
                      searches |-> Append(acc.searches,
                                          [startStations |-> startStation,
                                           maxTimeSec    |-> limit])]
                ELSE acc,
                nearbyStations, i + 1, maxTravelTimeSec, graph)

\* lines 145-148: stationMap.get(id); a later station of the same id wins
StationOf(net, id) ==
    LET idx == { i \in DOMAIN net.stations : net.stations[i].id = id }
    IN net.stations[CHOOSE i \in idx : \A j \in idx : j <= i]

HasStation(net, id) == \E i \in DOMAIN net.stations : net.stations[i].id = id

\* lines 151-158
RECURSIVE BuffersOf(_, _, _, _)
BuffersOf(reachableStations, i, net, walkDistanceMiles) ==
    IF i > Len(reachableStations) THEN <<>>
    ELSE LET id   == reachableStations[i].stationId
             rest == BuffersOf(reachableStations, i + 1, net, walkDistanceMiles)
         IN IF HasStation(net, id)
            THEN <<generateStationBuffer(StationOf(net, id), walkDistanceMiles)>>
                     \o rest
            ELSE rest

\* mutant: an isochrone with no station and no polygon instead of null
IsoEmptyResult == [kind |-> "result", polygon |-> {}, reachableStations |-> <<>>,
                   totalStations |-> 0, searches |-> <<>>]

\* the null createIsochrone returns (no result)
IsoNull == [kind |-> "null", polygon |-> NoPolygon, reachableStations |-> <<>>,
            totalStations |-> 0, searches |-> <<>>]

IsoThrow == [IsoNull EXCEPT !.kind = "throw"]

createIsochrone(origin, net, maxTravelTimeSec, walkDistanceMiles, maxWalkDistanceMiles) ==
    LET found == findNearestStations(origin.latitude,
                                     origin.longitude,
                                     net.stations, maxWalkDistanceMiles)
        nearbyStations == found.results
        graph == buildGraph(net)
        startStations ==
            [i \in DOMAIN nearbyStations |->
                [stationId        |-> nearbyStations[i].station.id,
                 remainingTimeSec |->
                     maxTravelTimeSec - nearbyStations[i].walkingTimeSec]]
        validStartStations == SelectSeq(startStations, ValidStart)
        routed == RoutingLoop([map |-> <<>>, searches |-> <<>>],
                              nearbyStations, 1, maxTravelTimeSec, graph)
        reachableStations ==
            [i \in DOMAIN routed.map |->
                [stationId     |-> routed.map[i][1],
                 travelTimeSec |-> routed.map[i][2]]]
        unionedPolygon ==
            unionBuffers(BuffersOf(reachableStations, 1, net, walkDistanceMiles))
    IN IF found.threw THEN IsoThrow
       ELSE IF Len(nearbyStations) = 0 THEN IsoNull
       ELSE IF Len(validStartStations) = 0 THEN IsoNull
       ELSE IF Len(reachableStations) = 0
            THEN [IsoNull EXCEPT !.searches = routed.searches]
       ELSE IF unionedPolygon = NoPolygon
            THEN [IsoNull EXCEPT !.searches = routed.searches]
       ELSE [kind              |-> "result",
             polygon           |-> unionedPolygon,
             reachableStations |-> reachableStations,
             totalStations     |-> Len(reachableStations),
             searches          |-> routed.searches]


(***************************************************************************)
(* Inputs of the engine specification                                      *)
(***************************************************************************)
\* 40.75 N, 73.98 W in units of 1e-7 degree
BaseLat == 4075 * 100000
Meridian == -(7398 * 100000)

Station(id, lat) == [id |-> id, lat |-> lat, lon |-> Meridian, numeric |-> TRUE]

\* from BaseLat: A at 0.25 mile (300 s walk), B just within 0.5 mile (600 s),
\* C out of walking range
EngineStations ==
    << Station("A", BaseLat + 36232),
       Station("B", BaseLat + 72463),
       Station("C", BaseLat + 200000) >>

StationIds == {"A", "B", "C"}

Edge(from, to, t, route) ==
    [fromId |-> from, toId |-> to, travelTimeSec |-> t, routeId |-> route]

EdgePool ==
    { Edge("A", "B", 0, "1"),   Edge("A", "B", 60, "2"),  Edge("B", "A", 0, "1"),
      Edge("B", "C", 60, "1"),  Edge("B", "C", 120, "2"),
      Edge("A", "C", 120, "3"), Edge("A", "C", 600, "4"),
      Edge("B", "X", 60, "1") }

Start(id, remaining) == [stationId |-> id, remainingTimeSec |-> remaining]

StartChoices ==
    { << Start("A", 0) >>, << Start("B", 100) >>, << Start("A", -1) >>,
      << Start("C", 0), Start("A", 100) >> }

SearchBudgets == {0, 60, 170, 200}

Location(lat) == [latitude |-> lat, longitude |-> Meridian]

\* at BaseLat A and B are in range; 2e-7 degree south of it B is out of range;
\* at A itself A is at 0 s and B at 300 s; far south nothing is in range
EngineOrigins ==
    { Location(BaseLat), Location(BaseLat - 2), Location(BaseLat + 36232),
      Location(BaseLat - 100000) }

IsoBudgets == {0, 300, 420, 660, 900}

NoLocation == Location(0)

NoCall == [fn |-> "none", startStations |-> <<>>, maxTimeSec |-> 0,
           origin |-> NoLocation]

(***************************************************************************)
(* The engine specification: a network is built edge by edge, and the      *)
(* routing and isochrone functions are applied to it.                      *)
(***************************************************************************)
\* the component's state after construction (lines 15-24, part_005 81-85)
ComponentInit ==
    /\ loading = TRUE
    /\ error = FALSE
    /\ loaded = FALSE
    /\ officeLocation = NoLocation
    /\ travelTimeMinutes = 45
    /\ isochrones = <<>>
    /\ isochroneCache = <<>>
    /\ log = <<>>
    /\ meta = [of |-> <<>>, inserts |-> 0, hitOldest |-> FALSE]
    /\ visited = 0
    /\ sharedGraph = <<>>
    /\ searches = <<>>

EngineInit ==
    /\ network = [stations |-> EngineStations, edges |-> <<>>]
    /\ call = NoCall
    /\ ret = <<>>
    /\ ComponentInit

AddEdge(e) ==
    /\ Len(network.edges) < MaxEdges
    /\ network' = [network EXCEPT !.edges = Append(@, e)]
    /\ call' = NoCall
    /\ ret' = <<>>
    /\ UNCHANGED cacheVars

Search(startStations, maxTimeSec) ==
    /\ call.fn = "none"
    /\ call' = [NoCall EXCEPT !.fn = "findReachableStations",
                              !.startStations = startStations,
                              !.maxTimeSec = maxTimeSec]
    /\ ret' = findReachableStations(startStations, maxTimeSec, buildGraph(network))
    /\ UNCHANGED <<network, cacheVars>>

Isochrone(origin, maxTravelTimeSec) ==
    /\ call.fn = "none"
    /\ call' = [NoCall EXCEPT !.fn = "createIsochrone",
                              !.origin = origin,
                              !.maxTimeSec = maxTravelTimeSec]
    /\ ret' = createIsochrone(origin, network, maxTravelTimeSec,
                              DEFAULT_MAX_WALK_DISTANCE_MILES,
                              DEFAULT_MAX_WALK_DISTANCE_MILES)
    /\ UNCHANGED <<network, cacheVars>>

Next ==
    \/ \E e \in EdgePool : AddEdge(e)
    \/ \E s \in StartChoices, b \in SearchBudgets : Search(s, b)
    \/ \E o \in EngineOrigins, b \in IsoBudgets : Isochrone(o, b)

Spec == EngineInit /\ [][Next]_vars

(***************************************************************************)
(* Reference definitions the claims are stated with                        *)
(***************************************************************************)
AllGraphEdges(graph) ==
    UNION { { graph[id][i] : i \in DOMAIN graph[id] } : id \in DOMAIN graph }

Vertices(graph) ==
    DOMAIN graph \cup { e.toId : e \in AllGraphEdges(graph) }

Min(S) == CHOOSE x \in S : \A y \in S : x <= y

\* Bellman-Ford: k rounds of relaxing every edge
RECURSIVE BellmanFord(_, _, _)
BellmanFord(d, graph, k) ==
    IF k = 0 THEN d
    ELSE BellmanFord(
             [v \in DOMAIN d |->
                 Min({d[v]} \cup { d[e.fromId] + e.travelTimeSec :
                                     e \in { x \in AllGraphEdges(graph) :
                                               x.toId = v /\ d[x.fromId] < Inf } })],
             graph, k - 1)

\* shortest-path distance from s to every vertex (Inf: no path)
ShortestDist(graph, s) ==
    LET V == Vertices(graph) \cup {s}
    IN BellmanFord([v \in V |-> IF v = s THEN 0 ELSE Inf], graph, Cardinality(V))

\* a Map as a function, defined when no key occurs twice
MapAsFunction(m) == [k \in MapKeySet(m) |-> MapGet(m, k)]

NoDuplicateKeys(m) == \A i, j \in DOMAIN m : m[i][1] = m[j][1] => i = j

SearchDone == call.fn = "findReachableStations"

IsoDone == call.fn = "createIsochrone"

(***************************************************************************)
(* C1: from a single start station with a non-negative remaining time and  *)
(* a budget B >= 0, findReachableStations returns exactly the stations     *)
(* whose shortest-path distance from the start is at most B, each mapped   *)
(* to that distance.                                                       *)
(***************************************************************************)
C1_ExactShortestDistances ==
    (SearchDone /\ Len(call.startStations) = 1
        /\ call.startStations[1].remainingTimeSec >= 0 /\ call.maxTimeSec >= 0)
    => LET sd == ShortestDist(buildGraph(network), call.startStations[1].stationId)
       IN /\ NoDuplicateKeys(ret)
          /\ MapAsFunction(ret) =
                 [v \in { x \in DOMAIN sd : sd[x] <= call.maxTimeSec } |-> sd[v]]

\* the line graph of the example with budget 200, and a graph in which the
\* first path found to C (120) is later improved (60)
C1_Witness ==
    /\ SearchDone
    /\ call.startStations = << Start("A", 0) >>
    /\ call.maxTimeSec = 200
    /\ \/ /\ network.edges = << Edge("A", "B", 60, "2"), Edge("B", "C", 120, "2") >>
          /\ ret = << <<"A", 0>>, <<"B", 60>>, <<"C", 180>> >>
       \/ /\ network.edges = << Edge("A", "C", 120, "3"), Edge("A", "B", 0, "1"),
                                Edge("B", "C", 60, "1") >>
          /\ MapGet(ret, "C") = 60

(***************************************************************************)
(* C2: the reachable set grows with the budget: a station returned with    *)
(* budget B is returned with every budget B' >= B, for the same graph and  *)
(* start stations.                                                         *)
(***************************************************************************)
C2_MonotonicInBudget ==
    SearchDone =>
        \A b2 \in { b \in SearchBudgets : b >= call.maxTimeSec } :
            MapKeySet(ret) \subseteq
                MapKeySet(findReachableStations(call.startStations, b2,
                                                buildGraph(network)))

\* a station is reached with the smallest budget that a larger budget keeps
C2_Witness ==
    /\ SearchDone
    /\ call.maxTimeSec = 60
    /\ Cardinality(MapKeySet(ret)) >= 2
    /\ Cardinality(MapKeySet(findReachableStations(call.startStations, 200,
                                                   buildGraph(network)))) = 3


(***************************************************************************)
(* Reference definitions for createIsochrone                               *)
(***************************************************************************)
DistanceFrom(origin, station) ==
    calculateDistance(origin.latitude, origin.longitude,
                      station.lat, station.lon)

InWalkRange(origin, station) ==
    DistanceFrom(origin, station) <= DEFAULT_MAX_WALK_DISTANCE_MILES

WalkTo(origin, station) ==
    calculateWalkingTime(DistanceFrom(origin, station))

StationSet(net) == { net.stations[i] : i \in DOMAIN net.stations }

\* the stations within walking range whose walking time is within the budget
QualifyingStarts(origin, net, maxTravelTimeSec) ==
    { st \in StationSet(net) :
        /\ InWalkRange(origin, st)
        /\ WalkTo(origin, st) <= maxTravelTimeSec }

\* walking time to the start plus the shortest transit time from it (Inf: none)
TotalVia(origin, net, st, id) ==
    LET sd == ShortestDist(buildGraph(net), st.id)
    IN IF id \in DOMAIN sd /\ sd[id] < Inf
       THEN WalkTo(origin, st) + sd[id]
       ELSE Inf

MinTotal(origin, net, maxTravelTimeSec, id) ==
    Min({Inf} \cup { TotalVia(origin, net, st, id) :
                       st \in QualifyingStarts(origin, net, maxTravelTimeSec) })

(***************************************************************************)
(* C3: in a result of createIsochrone every listed station's travelTimeSec *)
(* is the minimum, over the walk-accessible start stations whose walking   *)
(* time is within the budget, of walking time plus shortest transit time,  *)
(* and that minimum is at most maxTravelTimeSec.                           *)
(***************************************************************************)
C3_MinimumOverStarts ==
    (IsoDone /\ ret.kind = "result") =>
        \A i \in DOMAIN ret.reachableStations :
            LET r == ret.reachableStations[i]
                m == MinTotal(call.origin, network, call.maxTimeSec,
                              r.stationId)
            IN /\ r.travelTimeSec = m
               /\ m <= call.maxTimeSec
               /\ \A j \in DOMAIN ret.reachableStations :
                      ret.reachableStations[j].stationId = r.stationId => i = j

\* C is 900 s away over the nearer start A and 660 s over the farther start B
C3_Witness ==
    /\ IsoDone
    /\ ret.kind = "result"
    /\ call.origin = Location(BaseLat)
    /\ call.maxTimeSec = 900
    /\ \E i \in DOMAIN network.edges : network.edges[i] = Edge("A", "C", 600, "4")
    /\ \E i \in DOMAIN ret.reachableStations :
           ret.reachableStations[i] = [stationId |-> "C", travelTimeSec |-> 660]

(***************************************************************************)
(* C4: createIsochrone returns null (no exception, no empty polygon) when  *)
(* no station is within walking range of the origin, and when every        *)
(* station within walking range has a walking time above the budget.       *)
(***************************************************************************)
C4_NullWhenNoStart ==
    (IsoDone
        /\ \A st \in StationSet(network) :
               InWalkRange(call.origin, st)
                   => WalkTo(call.origin, st) > call.maxTimeSec)
    => /\ ret.kind = "null"
       /\ ret.polygon = NoPolygon

\* stations in range (300 s and 600 s away) with a budget of 0, and an origin
\* with no station in range
C4_Witness ==
    /\ IsoDone
    /\ ret.kind = "null"
    /\ \/ /\ call.origin = Location(BaseLat)
          /\ call.maxTimeSec = 0
          /\ \E st \in StationSet(network) : InWalkRange(call.origin, st)
       \/ /\ call.maxTimeSec = 900
          /\ \A st \in StationSet(network) : ~InWalkRange(call.origin, st)

(***************************************************************************)
(* C5: a station farther from the origin than the walking threshold is     *)
(* never the start station of a search; when it is listed it was reached   *)
(* over edges from a start station within range.                           *)
(***************************************************************************)
C5_NoStartBeyondWalkRange ==
    IsoDone =>
        /\ \A i \in DOMAIN ret.searches :
               \A j \in DOMAIN ret.searches[i].startStations :
                   \A st \in StationSet(network) :
                       st.id = ret.searches[i].startStations[j].stationId
                           => InWalkRange(call.origin, st)
        /\ \A i \in DOMAIN ret.reachableStations :
               \A st \in StationSet(network) :
                   (st.id = ret.reachableStations[i].stationId
                        /\ ~InWalkRange(call.origin, st))
                   => \E from \in StationSet(network) :
                          /\ InWalkRange(call.origin, from)
                          /\ from.id # st.id
                          /\ ShortestDist(buildGraph(network), from.id)[st.id] < Inf

\* B is 2e-7 degree out of range and is listed, reached from A
C5_Witness ==
    /\ IsoDone
    /\ ret.kind = "result"
    /\ call.origin = Location(BaseLat - 2)
    /\ Len(ret.searches) = 1
    /\ ret.searches[1].startStations[1].stationId = "A"
    /\ \E i \in DOMAIN ret.reachableStations :
           ret.reachableStations[i].stationId = "B"


(***************************************************************************)
(* C17: the graph that a call builds has a list for every station of the   *)
(* network, and the list of a station holds the edges of the network that  *)
(* leave from it, in the order of the network: the empty list when there   *)
(* are none.                                                               *)
(***************************************************************************)
C17_GraphListsEveryStation ==
    (SearchDone \/ IsoDone) =>
        \A i \in DOMAIN network.stations :
            /\ GraphHas(buildGraph(network), network.stations[i].id)
            /\ buildGraph(network)[network.stations[i].id]
                   = SelectSeq(network.edges,
                               LAMBDA e : e.fromId = network.stations[i].id)

\* two edges leave from A, with an edge from B between them in the network;
\* none leaves from C
C17_Witness ==
    /\ SearchDone
    /\ Len(network.edges) = 3
    /\ network.edges[1].fromId = "A"
    /\ network.edges[2].fromId = "B"
    /\ network.edges[3].fromId = "A"
    /\ buildGraph(network)["A"] = << network.edges[1], network.edges[3] >>
    /\ buildGraph(network)["C"] = <<>>


(***************************************************************************)
(* C19 as stated: in every isochrone that createIsochrone returns,         *)
(* totalStations is the number of the reachableStations, there is at least *)
(* one of them, and the polygon is the union of one walkshed buffer for    *)
(* every station listed: no listed station is without a buffer.            *)
(***************************************************************************)
C19_BufferForEveryListedStation ==
    (IsoDone /\ ret.kind = "result") =>
        /\ ret.totalStations = Len(ret.reachableStations)
        /\ Len(ret.reachableStations) > 0
        /\ \A i \in DOMAIN ret.reachableStations :
               \E st \in StationSet(network) :
                   /\ st.id = ret.reachableStations[i].stationId
                   /\ generateStationBuffer(st, DEFAULT_MAX_WALK_DISTANCE_MILES)
                          \subseteq ret.polygon
        /\ ret.polygon
               = UNION { generateStationBuffer(st, DEFAULT_MAX_WALK_DISTANCE_MILES) :
                           st \in { x \in StationSet(network) :
                                      \E i \in DOMAIN ret.reachableStations :
                                          ret.reachableStations[i].stationId = x.id } }


(***************************************************************************)
(* components/SubwayMap.tsx: the isochrone effect and its cache            *)
(* A value held by the maps is undefined, null or a polygon feature.       *)
(***************************************************************************)
JsUndefined == [type |-> "undefined", discs |-> {}]

JsNull == [type |-> "null", discs |-> {}]

Feature(polygon) == [type |-> "object", discs |-> polygon]

\* line 55: Map.prototype.get, undefined for a key that is absent
MapGetOrUndefined(m, k) == IF MapHas(m, k) THEN MapGet(m, k) ELSE JsUndefined

\* Number.prototype.toFixed(6) of a coordinate in 1e-7 degree: the number of
\* 1e-6 degrees nearest to it, a tie going away from zero
toFixed6(x) == IF x >= 0 THEN (x + 5) \div 10 ELSE -((-x + 5) \div 10)

\* line 52: `${latitude.toFixed(6)}_${longitude.toFixed(6)}_${timeMinutes}`
CacheKey(location, timeMinutes) ==
    << toFixed6(location.latitude), toFixed6(location.longitude), timeMinutes >>

\* lines 35-37: Math.round(travelTimeMinutes / 15) * 15
roundedTravelTimeMinutes(minutes) == ((2 * minutes + 15) \div 30) * 15

\* lines 46-48: 15, 30, ... up to the rounded travel time
RECURSIVE TimesToCalculate(_, _)
TimesToCalculate(time, rounded) ==
    IF time > rounded THEN <<>>
    ELSE <<time>> \o TimesToCalculate(time + 15, rounded)

\* mutant: if (cached), which takes a cached null for a miss
IsCachedTruthy(cached) == cached.type = "object"

\* line 56: cached !== undefined
IsCached(cached) == cached # JsUndefined

\* mutant: result?.polygon, which is undefined when there is no result
PolygonOrUndefined(result) ==
    IF result.kind = "result" THEN Feature(result.polygon) ELSE JsUndefined

\* line 64: result?.polygon || null
PolygonOrNull(result) ==
    IF result.kind = "result" THEN Feature(result.polygon) ELSE JsNull

\* line 70: the size above which the oldest entry is deleted
MaxCacheEntries == 100

\* mutant: the key inserted last
LastKey(cache) == cache[Len(cache)][1]

\* line 71: isochroneCacheRef.current.keys().next().value
FirstKey(cache) == cache[1][1]

\* lines 70-75
LimitCacheSize(cache) ==
    IF Len(cache) > MaxCacheEntries
    THEN MapDelete(cache, FirstKey(cache))
    ELSE cache

\* history kept beside the code's state: one log entry for each time of a run
LogEntry(acc, timeMinutes, cacheKey, hit, outcome, shown, evicted) ==
    [time     |-> timeMinutes,
     key      |-> cacheKey,
     had      |-> cacheKey \in MapKeySet(acc.cache),
     known    |-> cacheKey \in DOMAIN acc.meta,
     hit      |-> hit,
     computed |-> ~hit,
     outcome  |-> outcome,
     shown    |-> shown,
     evicted  |-> evicted]

Inserted(acc, cacheKey, value) ==
    [k \in DOMAIN acc.meta \cup {cacheKey} |->
        IF k = cacheKey
        THEN [tick |-> acc.inserts + 1, value |-> value]
        ELSE acc.meta[k]]

\* whether a hit ever was on the entry that was the first of the cache
HitOldest(acc, cacheKey) == acc.hitOldest \/ acc.cache[1][1] = cacheKey

\* lines 56-59: the time is answered from the cache
HitStep(acc, timeMinutes, cacheKey, cached) ==
    [acc EXCEPT
        !.isochrones = MapSet(@, timeMinutes, cached),
        !.hitOldest = HitOldest(acc, cacheKey),
        !.log = Append(@, LogEntry(acc, timeMinutes, cacheKey, TRUE, "none",
                                   cached, {}))]

\* lines 82-87: createIsochrone threw; null is shown and cached
CatchStep(acc, timeMinutes, cacheKey) ==
    [cache      |-> MapSet(acc.cache, cacheKey, JsNull),
     isochrones |-> MapSet(acc.isochrones, timeMinutes, JsNull),
     log        |-> Append(acc.log, LogEntry(acc, timeMinutes, cacheKey, FALSE,
                                             "throw", JsNull, {})),
     meta       |-> Inserted(acc, cacheKey, JsNull),
     inserts    |-> acc.inserts + 1,
     hitOldest  |-> acc.hitOldest]

\* lines 66-77: the polygon is cached, the cache is limited, the polygon is shown
StoreStep(acc, timeMinutes, cacheKey, outcome, polygon, stored) ==
    [cache      |-> LimitCacheSize(stored),
     isochrones |-> MapSet(acc.isochrones, timeMinutes, polygon),
     log        |-> Append(acc.log,
                           LogEntry(acc, timeMinutes, cacheKey, FALSE, outcome,
                                    polygon,
                                    MapKeySet(stored)
                                        \ MapKeySet(LimitCacheSize(stored)))),
     meta       |-> Inserted(acc, cacheKey, polygon),
     inserts    |-> acc.inserts + 1,
     hitOldest  |-> acc.hitOldest]

\* lines 62-87: the time is not in the cache
MissStep(acc, timeMinutes, cacheKey, result, polygon) ==
    IF result.kind = "throw"
    THEN CatchStep(acc, timeMinutes, cacheKey)
    ELSE StoreStep(acc, timeMinutes, cacheKey, result.kind, polygon,
                   MapSet(acc.cache, cacheKey, polygon))

\* line 63: createIsochrone(officeLocation, network, timeMinutes * 60)
ComputeStep(acc, timeMinutes, cacheKey, result) ==
    MissStep(acc, timeMinutes, cacheKey, result, PolygonOrNull(result))

CachedOrComputed(acc, location, net, timeMinutes, cacheKey, cached) ==
    IF IsCached(cached)
    THEN HitStep(acc, timeMinutes, cacheKey, cached)
    ELSE ComputeStep(acc, timeMinutes, cacheKey,
                     createIsochrone(location, net, timeMinutes * 60,
                                     DEFAULT_MAX_WALK_DISTANCE_MILES,
                                     DEFAULT_MAX_WALK_DISTANCE_MILES))

LookupStep(acc, location, net, timeMinutes, cacheKey) ==
    CachedOrComputed(acc, location, net, timeMinutes, cacheKey,
                     MapGetOrUndefined(acc.cache, cacheKey))

\* lines 51-88: the body of the loop for one time
EffectStep(acc, location, net, timeMinutes) ==
    LookupStep(acc, location, net, timeMinutes, CacheKey(location, timeMinutes))

RECURSIVE EffectLoop(_, _, _, _, _)
EffectLoop(acc, location, net, times, i) ==
    IF i > Len(times) THEN acc
    ELSE EffectLoop(EffectStep(acc, location, net, times[i]),
                    location, net, times, i + 1)

\* line 90 and the writes to isochroneCacheRef.current
CommitEffect(done) ==
    /\ isochroneCache' = done.cache
    /\ isochrones' = done.isochrones
    /\ log' = done.log
    /\ meta' = [of |-> done.meta, inserts |-> done.inserts,
                hitOldest |-> done.hitOldest]

\* lines 40-94: the effect, run with the values of its dependencies
RunEffect(location, hasNetwork, net, minutes) ==
    IF location # NoLocation /\ hasNetwork
    THEN CommitEffect(
             EffectLoop([cache |-> isochroneCache, isochrones |-> <<>>,
                         log |-> <<>>, meta |-> meta.of, inserts |-> meta.inserts,
                         hitOldest |-> meta.hitOldest],
                        location, net,
                        TimesToCalculate(15, roundedTravelTimeMinutes(minutes)), 1))
    ELSE /\ isochrones' = <<>>
         /\ log' = <<>>
         /\ UNCHANGED <<isochroneCache, meta>>

\* lines 153-167: the map, and with it the search box, is rendered
MapRendered == ~loading /\ ~error

(***************************************************************************)
(* Inputs of the cache specification                                       *)
(***************************************************************************)
\* the i-th origin the user searches for: after the first one they come from
\* the north, 0.0007 degree at a time; the first of them have no station
\* within walking range, the later ones have
OriginLat(i) == IF i = 1 THEN BaseLat ELSE BaseLat + 300000 - (i - 2) * 7000

\* the first origin is also searched for 2e-7 degree south: the same key
Jitters == {0, -2}

TravelTimeButtons == {15, 30, 45, 60}

GoodNetwork ==
    [stations |-> EngineStations,
     edges    |-> << Edge("A", "B", 600, "1"), Edge("B", "C", 1200, "1") >>]

\* a station whose latitude is not a number (parseFloat of an empty field)
BadNetwork ==
    [stations |-> Append(EngineStations,
                         [id |-> "D", lat |-> 0, lon |-> Meridian,
                          numeric |-> FALSE]),
     edges    |-> GoodNetwork.edges]

Networks == {GoodNetwork, BadNetwork}

(***************************************************************************)
(* The cache specification: the network is loaded, then the user searches  *)
(* for origins and presses the travel-time buttons.                        *)
(***************************************************************************)
CacheInit ==
    /\ network = [stations |-> <<>>, edges |-> <<>>]
    /\ call = NoCall
    /\ ret = <<>>
    /\ loading = TRUE
    /\ error = FALSE
    /\ loaded = FALSE
    /\ officeLocation = NoLocation
    /\ travelTimeMinutes = 45
    /\ isochrones = <<>>
    /\ isochroneCache = <<>>
    /\ log = <<>>
    /\ meta = [of |-> <<>>, inserts |-> 0, hitOldest |-> FALSE]
    /\ visited = 0
    /\ sharedGraph = <<>>
    /\ searches = <<>>

\* part_005 lines 94-103: network.json is loaded and stored
NetworkLoads(net) ==
    /\ loading
    /\ network' = net
    /\ loaded' = TRUE
    /\ loading' = FALSE
    /\ RunEffect(officeLocation, TRUE, net, travelTimeMinutes)
    /\ UNCHANGED <<call, ret, error, officeLocation, travelTimeMinutes, visited,
                   searchVars>>

\* part_005 lines 104-108: loading fails
NetworkFails ==
    /\ loading
    /\ error' = TRUE
    /\ loading' = FALSE
    /\ UNCHANGED <<network, call, ret, loaded, officeLocation, travelTimeMinutes,
                   isochrones, isochroneCache, log, meta, visited, searchVars>>

\* lines 101-136: a search result is retrieved; the effect runs for the new
\* office location
HandleRetrieve(i, jitter) ==
    /\ MapRendered
    /\ i \in 1..MaxOrigins
    /\ i = 1 \/ (i = visited + 1 /\ jitter = 0)
    /\ visited' = IF i > visited THEN i ELSE visited
    /\ officeLocation' = Location(OriginLat(i) + jitter)
    /\ RunEffect(officeLocation', loaded, network, travelTimeMinutes)
    /\ UNCHANGED <<network, call, ret, loading, error, loaded, travelTimeMinutes,
                   searchVars>>

\* lines 292-304: a travel-time button is pressed; the effect runs when the
\* rounded travel time changes
SetTravelTimeMinutes(minutes) ==
    /\ MapRendered
    /\ officeLocation # NoLocation
    /\ minutes # travelTimeMinutes
    /\ visited <= MaxSliderOrigins
    /\ travelTimeMinutes' = minutes
    /\ IF roundedTravelTimeMinutes(minutes) # roundedTravelTimeMinutes(travelTimeMinutes)
       THEN RunEffect(officeLocation, loaded, network, minutes)
       ELSE UNCHANGED <<isochrones, isochroneCache, log, meta>>
    /\ UNCHANGED <<network, call, ret, loading, error, loaded, officeLocation,
                   visited, searchVars>>

NextCache ==
    \/ \E net \in Networks : NetworkLoads(net)
    \/ NetworkFails
    \/ \E i \in 1..MaxOrigins, j \in Jitters : HandleRetrieve(i, j)
    \/ \E m \in TravelTimeButtons : SetTravelTimeMinutes(m)

SpecCache == CacheInit /\ [][NextCache]_vars

(***************************************************************************)
(* Properties of the isochrone cache, checked under SpecCache.             *)
(* meta.of holds, for every key ever inserted, the number of its last      *)
(* insertion (tick) and the value inserted.                                *)
(***************************************************************************)
Recorded(key) == meta.of[key]

Computed(entries) == SelectSeq(entries, LAMBDA e : e.computed)

\* the entries that computations store, in the order of the computations
StoredBy(entries) == [i \in DOMAIN entries |-> <<entries[i].key, entries[i].shown>>]

Evictions(entries) ==
    Cardinality(UNION { entries[i].evicted : i \in DOMAIN entries })

\* the entries of the cache are in the order of their insertion
InInsertionOrder(cache, of) ==
    \A i \in 1..(Len(cache) - 1) :
        of[cache[i][1]].tick < of[cache[i + 1][1]].tick

C7_AtMost100Entries == Len(isochroneCache) <= MaxCacheEntries

(***************************************************************************)
(* C8: eviction is first in, first out.  A run of the effect removes       *)
(* entries only from the front of the cache, as many as it evicted, and    *)
(* appends the keys it computed in the order of the computations; the      *)
(* entries are always in the order of their insertions, so the front is    *)
(* the entry inserted earliest; a run of hits only leaves the cache, and   *)
(* with it the entry evicted next, as it was.                              *)
(***************************************************************************)
C8_FifoEviction ==
    [][ (log' # <<>>) =>
          /\ Evictions(log') <= Len(isochroneCache)
          /\ isochroneCache'
                = SubSeq(isochroneCache, Evictions(log') + 1, Len(isochroneCache))
                  \o StoredBy(Computed(log'))
          /\ InInsertionOrder(isochroneCache', meta'.of)
          /\ (\A i \in DOMAIN log' : log'[i].hit)
                 => isochroneCache' = isochroneCache
      ]_vars

\* the entry inserted first was hit while it was the first of the cache and
\* is evicted all the same
C8_Witness ==
    /\ meta.hitOldest
    /\ Len(isochroneCache) = MaxCacheEntries
    /\ \E i \in DOMAIN log :
           \E key \in log[i].evicted :
               /\ key = CacheKey(Location(OriginLat(1)), 15)
               /\ ~MapHas(isochroneCache, key)

(***************************************************************************)
(* C9: a no-result is stored as an entry holding null; a query for a key   *)
(* whose entry holds null is answered with null from the cache and         *)
(* createIsochrone is not called; a key that was never computed is a miss. *)
(***************************************************************************)
C9_CachedNullIsAnEntry ==
    \A i \in DOMAIN log :
        /\ log[i].outcome = "null" =>
               /\ MapHas(isochroneCache, log[i].key)
               /\ MapGet(isochroneCache, log[i].key) = JsNull
        /\ (log[i].had /\ Recorded(log[i].key).value = JsNull) =>
               /\ log[i].hit
               /\ ~log[i].computed
               /\ log[i].shown = JsNull
        /\ ~log[i].known =>
               /\ ~log[i].hit
               /\ log[i].computed

\* the loaded network has no bad station, the null is a no-result
C9_Witness ==
    /\ network = GoodNetwork
    /\ \E i \in DOMAIN log :
           /\ log[i].hit
           /\ log[i].shown = JsNull
           /\ MapGet(isochroneCache, log[i].key) = JsNull

(***************************************************************************)
(* C10 as stated: a query whose computation throws is never shown or       *)
(* cached as the value of a query that found nothing.                      *)
(***************************************************************************)
C10_ErrorIsNotNoResult ==
    \A i \in DOMAIN log :
        log[i].outcome = "throw" =>
            /\ log[i].shown # PolygonOrNull(IsoNull)
            /\ MapGetOrUndefined(isochroneCache, log[i].key)
                   # PolygonOrNull(IsoNull)

\* what createIsochrone returns for the office location and a time
Fresh(timeMinutes) ==
    createIsochrone(officeLocation, network, timeMinutes * 60,
                    DEFAULT_MAX_WALK_DISTANCE_MILES, DEFAULT_MAX_WALK_DISTANCE_MILES)

(***************************************************************************)
(* C27 as stated: the polygon of a query that is answered from the cache   *)
(* is what createIsochrone returns for the origin and the budget of that   *)
(* query (when it returns at all), also for origins that differ beyond the *)
(* 6th decimal.                                                            *)
(***************************************************************************)
C27_CacheCoherent ==
    \A i \in DOMAIN log :
        (log[i].hit /\ Fresh(log[i].time).kind # "throw") =>
            log[i].shown = PolygonOrNull(Fresh(log[i].time))

(***************************************************************************)
(* scripts/preprocess-gtfs.ts: the Network Builder                         *)
(* A string is the sequence of its characters; a number is an integer or   *)
(* NaN.                                                                    *)
(***************************************************************************)
NaN == -1000000000

IsNaN(x) == x = NaN

Plus(a, b) == IF IsNaN(a) \/ IsNaN(b) THEN NaN ELSE a + b

Minus(a, b) == IF IsNaN(a) \/ IsNaN(b) THEN NaN ELSE a - b

Times(a, b) == IF IsNaN(a) \/ IsNaN(b) THEN NaN ELSE a * b

\* a < b of JavaScript: false when either side is NaN
Less(a, b) == ~IsNaN(a) /\ ~IsNaN(b) /\ a < b

Digits == <<"0", "1", "2", "3", "4", "5", "6", "7", "8", "9">>

IsDigit(c) == \E d \in DOMAIN Digits : Digits[d] = c

DigitValue(c) == (CHOOSE d \in DOMAIN Digits : Digits[d] = c) - 1

\* the value of a string of digits
RECURSIVE DecimalValue(_)
DecimalValue(str) ==
    IF str = <<>> THEN 0
    ELSE 10 * DecimalValue(SubSeq(str, 1, Len(str) - 1)) + DigitValue(str[Len(str)])

\* Number(str): 0 for the empty string, NaN for what is not a number
Number(str) ==
    IF \A i \in DOMAIN str : IsDigit(str[i]) THEN DecimalValue(str) ELSE NaN

\* the digits a string starts with
RECURSIVE LeadingDigits(_)
LeadingDigits(str) ==
    IF str = <<>> \/ ~IsDigit(str[1]) THEN <<>>
    ELSE <<str[1]>> \o LeadingDigits(Tail(str))

\* parseInt(str, 10) and parseFloat(str) of an unsigned whole number: the
\* digits the string starts with, NaN when it starts with none
parseInt(str) ==
    IF LeadingDigits(str) = <<>> THEN NaN ELSE DecimalValue(LeadingDigits(str))

\* String.prototype.split(sep): the pieces between the separators
RECURSIVE Split(_, _, _)
Split(str, sep, current) ==
    IF str = <<>> THEN <<current>>
    ELSE IF str[1] = sep THEN <<current>> \o Split(Tail(str), sep, <<>>)
    ELSE Split(Tail(str), sep, Append(current, str[1]))

\* array[i] of JavaScript for an index from 0: undefined (NaN as a number)
\* beyond the end
NumberAt(numbers, i) == IF i + 1 \in DOMAIN numbers THEN numbers[i + 1] ELSE NaN

\* lines 41-44
timeToSeconds(timeStr) ==
    LET parts == Split(timeStr, ":", <<>>)
        numbers == [i \in DOMAIN parts |-> Number(parts[i])]
    IN Plus(Plus(Times(NumberAt(numbers, 0), 3600),
                 Times(NumberAt(numbers, 1), 60)),
            NumberAt(numbers, 2))

RECURSIVE InsertNumber(_, _)
InsertNumber(sorted, x) ==
    IF sorted = <<>> THEN <<x>>
    ELSE IF x < sorted[1] THEN <<x>> \o sorted
    ELSE <<sorted[1]>> \o InsertNumber(Tail(sorted), x)

RECURSIVE SortNumbers(_)
SortNumbers(numbers) ==
    IF numbers = <<>> THEN <<>>
    ELSE InsertNumber(SortNumbers(SubSeq(numbers, 1, Len(numbers) - 1)),
                      numbers[Len(numbers)])

HasNaN(numbers) == \E i \in DOMAIN numbers : IsNaN(numbers[i])

\* line 50: [...numbers].sort((a, b) => a - b).  With a NaN among the numbers
\* the comparator is not consistent and the order is the implementation's:
\* the numbers in the order of their positions in `order`
SortedNumbers(numbers, order) ==
    IF HasNaN(numbers)
    THEN LET positions == SelectSeq(order, LAMBDA k : k \in DOMAIN numbers)
         IN [i \in DOMAIN positions |-> numbers[positions[i]]]
    ELSE SortNumbers(numbers)

\* mutant: the upper of the two central values of an even number of values
MedianUpper(sorted, mid) == Times(sorted[mid + 1], 2)

\* lines 52-54, in half seconds: sorted[mid - 1] + sorted[mid] for an even
\* number of values (mid counts from 0)
MedianOfSorted(sorted, mid) ==
    IF Len(sorted) % 2 = 0
    THEN Plus(sorted[mid], sorted[mid + 1])
    ELSE Times(sorted[mid + 1], 2)

\* lines 49-55, in half seconds
median(numbers, order) ==
    MedianOfSorted(SortedNumbers(numbers, order), Len(numbers) \div 2)

\* Math.round of a number given in half seconds: a half goes up
MathRound(halves) == IF IsNaN(halves) THEN NaN ELSE (halves + 1) \div 2

\* a value that is undefined: no string, every element of a string is one
\* character
Undefined == <<"undefined">>

\* a value used as a condition: undefined and the empty string are falsy
Truthy(str) == str # Undefined /\ str # <<>>

\* a || b
OrElse(a, b) == IF Truthy(a) THEN a ELSE b

\* lines 13-36: the file as its lines of fields, the header first; readFileSync
\* throws when the file is missing
MissingFile == [missing |-> TRUE, header |-> <<>>, rows |-> <<>>]

Table(header, rows) == [missing |-> FALSE, header |-> header, rows |-> rows]

\* Array.prototype.indexOf: the index from 0, -1 when absent
indexOf(header, name) ==
    IF \E i \in DOMAIN header : header[i] = name
    THEN (CHOOSE i \in DOMAIN header :
              header[i] = name /\ \A j \in 1..(i - 1) : header[j] # name) - 1
    ELSE -1

\* row[idx]: undefined for an index outside the row
FieldAt(row, idx) == IF idx + 1 \in DOMAIN row THEN row[idx + 1] ELSE Undefined

\* lines 110-134: parent stations and the parents of child stops
RECURSIVE FirstPass(_, _, _, _)
FirstPass(acc, stops, idx, i) ==
    IF i > Len(stops.rows) THEN acc
    ELSE LET row == stops.rows[i]
             stopId == FieldAt(row, idx.stopId)
         IN FirstPass(
                IF FieldAt(row, idx.locationType) = <<"1">>
                THEN [acc EXCEPT !.stationsMap =
                         MapSet(@, stopId,
                                [id           |-> stopId,
                                 name         |-> FieldAt(row, idx.stopName),
                                 lat          |-> parseInt(FieldAt(row, idx.stopLat)),
                                 lon          |-> parseInt(FieldAt(row, idx.stopLon)),
                                 accessible   |-> FALSE,
                                 routesServed |-> <<>>])]
                ELSE IF Truthy(FieldAt(row, idx.parentStation))
                THEN [acc EXCEPT !.stopToParent =
                         MapSet(@, stopId, FieldAt(row, idx.parentStation))]
                ELSE acc,
                stops, idx, i + 1)

\* lines 140-146 and 149-155: a Map from one column of a table to another
RECURSIVE ColumnMap(_, _, _, _, _)
ColumnMap(m, table, keyIdx, valueIdx, i) ==
    IF i > Len(table.rows) THEN m
    ELSE ColumnMap(MapSet(m, FieldAt(table.rows[i], keyIdx),
                          FieldAt(table.rows[i], valueIdx)),
                   table, keyIdx, valueIdx, i + 1)

\* Set.prototype.add: a Set keeps its values in the order of their insertion
SetAdd(set, value) ==
    IF \E i \in DOMAIN set : set[i] = value THEN set ELSE Append(set, value)

\* lines 164, 235, 236: stopToParent.get(stopId) || stopId
ParentOf(stopToParent, stopId) ==
    OrElse(IF MapHas(stopToParent, stopId) THEN MapGet(stopToParent, stopId)
           ELSE Undefined,
           stopId)

MapGetOrNone(m, k) == IF MapHas(m, k) THEN MapGet(m, k) ELSE Undefined

\* lines 171-174
AddRoute(stopToRoutes, parentId, routeShortName) ==
    MapSet(stopToRoutes, parentId,
           SetAdd(IF MapHas(stopToRoutes, parentId)
                  THEN MapGet(stopToRoutes, parentId) ELSE <<>>,
                  routeShortName))

\* lines 158-177: the short names of the routes that stop at each station
RECURSIVE RoutesPass(_, _, _, _, _, _, _)
RoutesPass(stopToRoutes, stopTimes, idx, stopToParent, tripToRoute, routeIdToShortName, i) ==
    IF i > Len(stopTimes.rows) THEN stopToRoutes
    ELSE LET row == stopTimes.rows[i]
             parentId == ParentOf(stopToParent, FieldAt(row, idx.stopTimesStopId))
             routeId == MapGetOrNone(tripToRoute, FieldAt(row, idx.tripId))
             routeShortName == MapGetOrNone(routeIdToShortName, routeId)
         IN RoutesPass(
                IF Truthy(routeId) /\ Truthy(routeShortName)
                THEN AddRoute(stopToRoutes, parentId, routeShortName)
                ELSE stopToRoutes,
                stopTimes, idx, stopToParent, tripToRoute, routeIdToShortName,
                i + 1)

\* the characters in the order of their code units
Alphabet ==
    <<"0", "1", "2", "3", "4", "5", "6", "7", "8", "9", ":",
      "A", "B", "C", "P", "Q", "R", "T", "X", "|">>

CodeUnit(c) == CHOOSE i \in DOMAIN Alphabet : Alphabet[i] = c

\* a < b for strings: by code units, a proper prefix first
RECURSIVE StringLess(_, _)
StringLess(a, b) ==
    IF b = <<>> THEN FALSE
    ELSE IF a = <<>> THEN TRUE
    ELSE IF CodeUnit(a[1]) # CodeUnit(b[1]) THEN CodeUnit(a[1]) < CodeUnit(b[1])
    ELSE StringLess(Tail(a), Tail(b))

RECURSIVE InsertString(_, _)
InsertString(sorted, x) ==
    IF sorted = <<>> THEN <<x>>
    ELSE IF StringLess(x, sorted[1]) THEN <<x>> \o sorted
    ELSE <<sorted[1]>> \o InsertString(Tail(sorted), x)

\* mutant: Array.from(routesSet), not sorted
ArrayFrom(strings) == strings

\* line 183: Array.prototype.sort() without a comparator
RECURSIVE SortStrings(_)
SortStrings(strings) ==
    IF strings = <<>> THEN <<>>
    ELSE InsertString(SortStrings(SubSeq(strings, 1, Len(strings) - 1)),
                      strings[Len(strings)])

\* lines 180-185
UpdateStations(stationsMap, stopToRoutes) ==
    [i \in DOMAIN stationsMap |->
        IF MapHas(stopToRoutes, stationsMap[i][1])
        THEN << stationsMap[i][1],
                [stationsMap[i][2] EXCEPT !.routesServed =
                    SortStrings(MapGet(stopToRoutes, stationsMap[i][1]))] >>
        ELSE stationsMap[i]]

\* lines 201-219: the stop times of each trip, in the order of the rows
RECURSIVE GroupByTrip(_, _, _, _)
GroupByTrip(tripStopTimes, stopTimes, idx, i) ==
    IF i > Len(stopTimes.rows) THEN tripStopTimes
    ELSE LET row == stopTimes.rows[i]
             tripId == FieldAt(row, idx.tripId)
         IN GroupByTrip(
                MapSet(tripStopTimes, tripId,
                       Append(IF MapHas(tripStopTimes, tripId)
                              THEN MapGet(tripStopTimes, tripId) ELSE <<>>,
                              [stopId        |-> FieldAt(row, idx.stopTimesStopId),
                               arrivalTime   |-> FieldAt(row, idx.arrivalTime),
                               departureTime |-> FieldAt(row, idx.departureTime),
                               sequence      |-> parseInt(FieldAt(row, idx.stopSequence))])),
                stopTimes, idx, i + 1)

RECURSIVE InsertStop(_, _)
InsertStop(sorted, x) ==
    IF sorted = <<>> THEN <<x>>
    ELSE IF x.sequence < sorted[1].sequence THEN <<x>> \o sorted
    ELSE <<sorted[1]>> \o InsertStop(Tail(sorted), x)

RECURSIVE SortStops(_)
SortStops(stops) ==
    IF stops = <<>> THEN <<>>
    ELSE InsertStop(SortStops(SubSeq(stops, 1, Len(stops) - 1)), stops[Len(stops)])

\* line 224: stops.sort((a, b) => a.sequence - b.sequence); with a NaN among
\* the sequences the order is the implementation's
SortBySequence(stops, order) ==
    IF \E i \in DOMAIN stops : IsNaN(stops[i].sequence)
    THEN LET positions == SelectSeq(order, LAMBDA k : k \in DOMAIN stops)
         IN [i \in DOMAIN positions |-> stops[positions[i]]]
    ELSE SortStops(stops)

\* a value inside a template string
TemplateValue(str) ==
    IF str = Undefined THEN <<"u", "n", "d", "e", "f", "i", "n", "e", "d">> ELSE str

\* line 252: `${fromParentId}|${toParentId}|${routeId}`
EdgeKey(fromParentId, toParentId, routeId) ==
    TemplateValue(fromParentId) \o <<"|">> \o TemplateValue(toParentId) \o <<"|">>
        \o TemplateValue(routeId)

\* mutant: no correction of a time that wraps around midnight
NotAdjusted(travelTime) == travelTime

\* line 247: travelTime < 0 ? travelTime + 86400 : travelTime
AdjustedTravelTime(travelTime) ==
    IF Less(travelTime, 0) THEN Plus(travelTime, 86400) ELSE travelTime

\* mutant: a travel time above the limit is set to the limit
ClampedOrSkipped(adjustedTravelTime) ==
    IF Less(3600, adjustedTravelTime) THEN <<3600>> ELSE <<adjustedTravelTime>>

\* line 250: the travel time that is collected, none when it is skipped
CollectedOrSkipped(adjustedTravelTime) ==
    IF Less(adjustedTravelTime, 0) \/ Less(3600, adjustedTravelTime)
    THEN <<>>
    ELSE <<adjustedTravelTime>>

\* lines 252-256
PushTravelTimes(edgeTravelTimes, edgeKey, collected) ==
    IF collected = <<>> THEN edgeTravelTimes
    ELSE MapSet(edgeTravelTimes, edgeKey,
                (IF MapHas(edgeTravelTimes, edgeKey)
                 THEN MapGet(edgeTravelTimes, edgeKey) ELSE <<>>) \o collected)

\* lines 231-256: one pair of consecutive stops; String.prototype.split of an
\* undefined time throws
PairStep(acc, fromStop, toStop, routeId, stopToParent) ==
    LET fromParentId == ParentOf(stopToParent, fromStop.stopId)
        toParentId == ParentOf(stopToParent, toStop.stopId)
    IN IF acc.threw \/ fromParentId = toParentId THEN acc
       ELSE IF fromStop.departureTime = Undefined \/ toStop.arrivalTime = Undefined
       THEN [acc EXCEPT !.threw = TRUE]
       ELSE [acc EXCEPT !.edgeTravelTimes =
                PushTravelTimes(@, EdgeKey(fromParentId, toParentId, routeId),
                    CollectedOrSkipped(AdjustedTravelTime(
                        Minus(timeToSeconds(toStop.arrivalTime),
                              timeToSeconds(fromStop.departureTime)))))]

\* lines 230-257: the pairs of consecutive stops of one trip
RECURSIVE PairLoop(_, _, _, _, _)
PairLoop(acc, stops, routeId, stopToParent, i) ==
    IF i >= Len(stops) THEN acc
    ELSE PairLoop(PairStep(acc, stops[i], stops[i + 1], routeId, stopToParent),
                  stops, routeId, stopToParent, i + 1)

\* lines 222-258: the trips in the order of their first rows
RECURSIVE TripLoop(_, _, _, _, _, _)
TripLoop(acc, tripStopTimes, tripToRoute, stopToParent, order, i) ==
    IF i > Len(tripStopTimes) THEN acc
    ELSE TripLoop(
             IF Truthy(MapGetOrNone(tripToRoute, tripStopTimes[i][1]))
             THEN PairLoop(acc, SortBySequence(tripStopTimes[i][2], order),
                           MapGetOrNone(tripToRoute, tripStopTimes[i][1]),
                           stopToParent, 1)
             ELSE acc,
             tripStopTimes, tripToRoute, stopToParent, order, i + 1)

\* const [fromId, toId, routeId] = array: undefined beyond the end
PartAt(parts, i) == IF i \in DOMAIN parts THEN parts[i] ELSE Undefined

\* lines 264-274: one edge for each key, with the rounded median of its times
AggregateEdges(edgeTravelTimes, order) ==
    [i \in DOMAIN edgeTravelTimes |->
        [fromId        |-> PartAt(Split(edgeTravelTimes[i][1], "|", <<>>), 1),
         toId          |-> PartAt(Split(edgeTravelTimes[i][1], "|", <<>>), 2),
         travelTimeSec |-> MathRound(median(edgeTravelTimes[i][2], order)),
         routeId       |-> PartAt(Split(edgeTravelTimes[i][1], "|", <<>>), 3)]]

\* lines 78-95: the index of each column in its header
ColumnIndexes(feed) ==
    [stopId          |-> indexOf(feed.stops.header, "stop_id"),
     stopName        |-> indexOf(feed.stops.header, "stop_name"),
     stopLat         |-> indexOf(feed.stops.header, "stop_lat"),
     stopLon         |-> indexOf(feed.stops.header, "stop_lon"),
     locationType    |-> indexOf(feed.stops.header, "location_type"),
     parentStation   |-> indexOf(feed.stops.header, "parent_station"),
     tripId          |-> indexOf(feed.stopTimes.header, "trip_id"),
     stopTimesStopId |-> indexOf(feed.stopTimes.header, "stop_id"),
     arrivalTime     |-> indexOf(feed.stopTimes.header, "arrival_time"),
     departureTime   |-> indexOf(feed.stopTimes.header, "departure_time"),
     stopSequence    |-> indexOf(feed.stopTimes.header, "stop_sequence"),
     tripsTripId     |-> indexOf(feed.trips.header, "trip_id"),
     routeId         |-> indexOf(feed.trips.header, "route_id"),
     routeIdRoutes   |-> indexOf(feed.routes.header, "route_id"),
     routeShortName  |-> indexOf(feed.routes.header, "route_short_name")]

\* lines 187-281, with the maps built before
BuildEdges(feed, idx, first, tripToRoute, stopToRoutes, order) ==
    LET collected == TripLoop([threw |-> FALSE, edgeTravelTimes |-> <<>>],
                              GroupByTrip(<<>>, feed.stopTimes, idx, 1),
                              tripToRoute, first.stopToParent, order, 1)
        stationsMap == UpdateStations(first.stationsMap, stopToRoutes)
    IN [threw           |-> collected.threw,
        edgeTravelTimes |-> collected.edgeTravelTimes,
        stations        |-> [i \in DOMAIN stationsMap |-> stationsMap[i][2]],
        edges           |-> AggregateEdges(collected.edgeTravelTimes, order)]

\* lines 97-177, with the maps from trips and routes
BuildMaps(feed, idx, first, tripToRoute, routeIdToShortName, order) ==
    BuildEdges(feed, idx, first, tripToRoute,
               RoutesPass(<<>>, feed.stopTimes, idx, first.stopToParent,
                          tripToRoute, routeIdToShortName, 1),
               order)

\* mutant: a missing file is read as a file without lines
ReadsNothingWhenMissing(feed) == FALSE

\* lines 67-70: readFileSync throws for a file that does not exist
ReadThrows(feed) ==
    feed.stops.missing \/ feed.stopTimes.missing \/ feed.trips.missing
        \/ feed.routes.missing

\* lines 60-281
preprocessGTFS(feed, order) ==
    IF ReadThrows(feed)
    THEN [threw |-> TRUE, edgeTravelTimes |-> <<>>, stations |-> <<>>,
          edges |-> <<>>]
    ELSE BuildMaps(feed, ColumnIndexes(feed),
                   FirstPass([stopToParent |-> <<>>, stationsMap |-> <<>>],
                             feed.stops, ColumnIndexes(feed), 1),
                   ColumnMap(<<>>, feed.trips, ColumnIndexes(feed).tripsTripId,
                             ColumnIndexes(feed).routeId, 1),
                   ColumnMap(<<>>, feed.routes, ColumnIndexes(feed).routeIdRoutes,
                             ColumnIndexes(feed).routeShortName, 1),
                   order)

\* lines 284-308: main writes network.json unless preprocessGTFS threw, and
\* exits with 1 when it did
MainResult(feed, built) ==
    [exit            |-> IF built.threw THEN 1 ELSE 0,
     written         |-> ~built.threw,
     edgeTravelTimes |-> built.edgeTravelTimes]

NetworkJson(built) == [stations |-> built.stations, edges |-> built.edges]

(***************************************************************************)
(* Inputs of the builder specification: feeds of MaxTrips trips of two     *)
(* stops each                                                              *)
(***************************************************************************)
TwoDigits(n) == << Digits[(n \div 10) + 1], Digits[(n % 10) + 1] >>

TimeStr(h, m, sec) ==
    TwoDigits(h) \o <<":">> \o TwoDigits(m) \o <<":">> \o TwoDigits(sec)

TimePair(departure, arrival) == [departure |-> departure, arrival |-> arrival]

Morning == TimeStr(8, 0, 0)

\* 100 s, the time of the trips that are not about times
PlainTimes == TimePair(Morning, TimeStr(8, 1, 40))

\* 30 s over midnight, 100 s, 200 s, 300 s, 3600 s, 3601 s, and 3600 s
\* backwards from a departure after 24:00:00
NumericTimes ==
    { TimePair(TimeStr(23, 59, 50), TimeStr(0, 0, 20)),
      PlainTimes,
      TimePair(Morning, TimeStr(8, 3, 20)),
      TimePair(Morning, TimeStr(8, 5, 0)),
      TimePair(Morning, TimeStr(9, 0, 0)),
      TimePair(Morning, TimeStr(9, 0, 1)),
      TimePair(TimeStr(32, 0, 0), TimeStr(7, 0, 0)) }

\* a stop without an arrival time: the field is empty
NoArrivalTimes == TimePair(Morning, <<>>)

Leg(from, to) == [from |-> from, to |-> to]

\* between the platforms of the parent stations P and Q
PlatformLeg == Leg(<<"P", "1">>, <<"Q", "1">>)

\* between stations with a | in their ids
BarLegs == { Leg(<<"A", "|", "B">>, <<"C">>), Leg(<<"A">>, <<"B", "|", "C">>) }

\* between two platforms of P, and from a platform of P to P itself
SameStationLegs == { Leg(<<"P", "1">>, <<"P", "2">>), Leg(<<"P", "1">>, <<"P">>) }

\* from the stop Z, which is no station and has no parent station, and to
\* the platform Y1, whose parent station Y has no line in stops.txt
OutsideLegs == { Leg(<<"Z">>, <<"Q", "1">>), Leg(<<"P", "1">>, <<"Y", "1">>) }

\* from the station A to the station A|B
BarLegFromA == Leg(<<"A">>, <<"A", "|", "B">>)

RouteOne == <<"R", "1">>

RouteTwo == <<"R", "2">>

TripChoice(leg, route, times) == [leg |-> leg, route |-> route, times |-> times]

TripChoices(i) ==
    { TripChoice(PlatformLeg, RouteOne, t) : t \in NumericTimes }
    \cup { TripChoice(PlatformLeg, RouteTwo, t) :
              t \in { PlainTimes, TimePair(Morning, TimeStr(8, 3, 20)) } }
    \cup { TripChoice(leg, RouteOne, PlainTimes) : leg \in BarLegs }
    \cup (IF i = 1 THEN { TripChoice(PlatformLeg, RouteOne, NoArrivalTimes) }
          ELSE {})
    \cup (IF i = 2
          THEN { TripChoice(leg, RouteOne, PlainTimes) : leg \in SameStationLegs }
          ELSE {})
    \cup (IF i = 3
          THEN { TripChoice(leg, RouteOne, PlainTimes) :
                    leg \in OutsideLegs \cup {BarLegFromA} }
          ELSE {})

AllTripChoices == UNION { TripChoices(i) : i \in 1..MaxTrips }

TripChoiceSeqs ==
    { c \in [1..MaxTrips -> AllTripChoices] :
        \A i \in 1..MaxTrips : c[i] \in TripChoices(i) }

PlainTrips == [i \in 1..MaxTrips |-> TripChoice(PlatformLeg, RouteOne, PlainTimes)]

StopsHeader ==
    <<"stop_id", "stop_name", "stop_lat", "stop_lon", "location_type",
      "parent_station">>

StopTimesHeader ==
    <<"trip_id", "stop_id", "arrival_time", "departure_time", "stop_sequence">>

TripsHeader == <<"trip_id", "route_id">>

RoutesHeader == <<"route_id", "route_short_name">>

Files == {"stops", "stopTimes", "trips", "routes"}

HeaderOf(file) ==
    IF file = "stops" THEN StopsHeader
    ELSE IF file = "stopTimes" THEN StopTimesHeader
    ELSE IF file = "trips" THEN TripsHeader
    ELSE RoutesHeader

\* a column of a file: the file and the name of the column
Columns ==
    UNION { { <<file, HeaderOf(file)[i]>> : i \in DOMAIN HeaderOf(file) } :
              file \in Files }

NoColumn == <<"none", "none">>

\* a line of a file with the fields of the header's columns
Row(header, fields) == [i \in DOMAIN header |-> fields[header[i]]]

ParentStop(id) ==
    [stop_id |-> id, stop_name |-> id, stop_lat |-> <<"4">>, stop_lon |-> <<"7">>,
     location_type |-> <<"1">>, parent_station |-> <<>>]

ChildStop(id, parent) ==
    [stop_id |-> id, stop_name |-> id, stop_lat |-> <<"4">>, stop_lon |-> <<"7">>,
     location_type |-> <<>>, parent_station |-> parent]

StopFields ==
    << ParentStop(<<"P">>), ParentStop(<<"Q">>),
       ChildStop(<<"P", "1">>, <<"P">>), ChildStop(<<"Q", "1">>, <<"Q">>),
       ParentStop(<<"A", "|", "B">>), ParentStop(<<"C">>),
       ParentStop(<<"A">>), ParentStop(<<"B", "|", "C">>),
       ChildStop(<<"P", "2">>, <<"P">>), ChildStop(<<"Z">>, <<>>),
       ChildStop(<<"Y", "1">>, <<"Y">>) >>

\* R1 is shown as 2 and R2 as 10
RouteFields ==
    << [route_id |-> RouteOne, route_short_name |-> <<"2">>],
       [route_id |-> RouteTwo, route_short_name |-> <<"1", "0">>] >>

TripId(i) == <<"T", Digits[i + 1]>>

DepartureFields(i, choice) ==
    [trip_id |-> TripId(i), stop_id |-> choice.leg.from,
     arrival_time |-> choice.times.departure,
     departure_time |-> choice.times.departure, stop_sequence |-> <<"1">>]

ArrivalFields(i, choice) ==
    [trip_id |-> TripId(i), stop_id |-> choice.leg.to,
     arrival_time |-> choice.times.arrival,
     departure_time |-> choice.times.arrival, stop_sequence |-> <<"2">>]

\* the two lines of trip i; the lines of an even trip are out of sequence
StopTimeFields(choices, i) ==
    IF i % 2 = 0
    THEN << ArrivalFields(i, choices[i]), DepartureFields(i, choices[i]) >>
    ELSE << DepartureFields(i, choices[i]), ArrivalFields(i, choices[i]) >>

RECURSIVE AllStopTimeFields(_, _)
AllStopTimeFields(choices, i) ==
    IF i > Len(choices) THEN <<>>
    ELSE StopTimeFields(choices, i) \o AllStopTimeFields(choices, i + 1)

FieldsOf(file, choices) ==
    IF file = "stops" THEN StopFields
    ELSE IF file = "stopTimes" THEN AllStopTimeFields(choices, 1)
    ELSE IF file = "trips"
    THEN [i \in DOMAIN choices |-> [trip_id |-> TripId(i), route_id |-> choices[i].route]]
    ELSE RouteFields

FileOf(file, header, fields, missing) ==
    IF missing = file THEN MissingFile
    ELSE Table(header, [i \in DOMAIN fields |-> Row(header, fields[i])])

HeaderWithout(file, dropped) ==
    SelectSeq(HeaderOf(file), LAMBDA name : <<file, name>> # dropped)

\* the feed of the trips chosen, without one file or without one column
Feed(choices, missing, dropped) ==
    [file \in Files |->
        FileOf(file, HeaderWithout(file, dropped), FieldsOf(file, choices), missing)]

FeedInput(choices, missing, dropped) ==
    [trips |-> choices, missing |-> missing, dropped |-> dropped]

\* complete feeds of any trips, and feeds of plain trips without a file or
\* without a column
FeedInputs ==
    { FeedInput(c, "none", NoColumn) : c \in TripChoiceSeqs }
    \cup { FeedInput(PlainTrips, file, NoColumn) : file \in Files }
    \cup { FeedInput(PlainTrips, "none", column) : column \in Columns }

RECURSIVE Arrangements(_)
Arrangements(S) ==
    IF S = {} THEN { <<>> }
    ELSE UNION { { <<x>> \o rest : rest \in Arrangements(S \ {x}) } : x \in S }

\* the orders a sort may leave its array in when its comparator meets NaN
Orders(input) ==
    IF \/ \E i \in DOMAIN input.trips : input.trips[i].times = NoArrivalTimes
       \/ input.dropped = <<"stopTimes", "stop_sequence">>
    THEN Arrangements(1..MaxTrips)
    ELSE { [i \in 1..MaxTrips |-> i] }

(***************************************************************************)
(* The builder specification: the script is run once on a feed             *)
(***************************************************************************)
BuildInit ==
    /\ network = [stations |-> <<>>, edges |-> <<>>]
    /\ call = NoCall
    /\ ret = <<>>
    /\ ComponentInit

Finish(input, feed, built) ==
    /\ call' = [fn |-> "main", input |-> input, feed |-> feed]
    /\ ret' = MainResult(feed, built)
    /\ network' = IF built.threw THEN network ELSE NetworkJson(built)

Run(input, feed, order) == Finish(input, feed, preprocessGTFS(feed, order))

\* lines 284-311: the script is run on the feed made from the input
Main(input, order) ==
    /\ call.fn = "none"
    /\ Run(input, Feed(input.trips, input.missing, input.dropped), order)
    /\ UNCHANGED cacheVars

\* the feeds the script can still be run on: it is run once
PendingInputs == IF call.fn = "none" THEN FeedInputs ELSE {}

NextBuild ==
    \E input \in PendingInputs : \E order \in Orders(input) : Main(input, order)

SpecBuild == BuildInit /\ [][NextBuild]_vars

(***************************************************************************)
(* Properties of the Network Builder, checked under SpecBuild              *)
(***************************************************************************)
BuildDone == call.fn = "main"

Wrote == BuildDone /\ ret.written

\* the travel times collected for the i-th key
TimesOfKey(i) == ret.edgeTravelTimes[i][2]

Count(numbers, x) == Cardinality({ i \in DOMAIN numbers : numbers[i] = x })

\* the value that r values precede when the numbers are in ascending order
ValueAtRank(numbers, r) ==
    CHOOSE x \in { numbers[i] : i \in DOMAIN numbers } :
        /\ Cardinality({ i \in DOMAIN numbers : numbers[i] < x }) <= r
        /\ Cardinality({ i \in DOMAIN numbers : numbers[i] <= x }) > r

\* the statistical median, in half seconds: the sum of the two central
\* values, which are the same value for an odd number of values
StatisticalMedian(numbers) ==
    ValueAtRank(numbers, (Len(numbers) - 1) \div 2)
        + ValueAtRank(numbers, Len(numbers) \div 2)

\* the integer nearest to a number of half seconds
Nearest(halves) ==
    CHOOSE n \in (halves \div 2)..((halves \div 2) + 1) :
        \A m \in (halves \div 2)..((halves \div 2) + 1) :
            \/ 2 * Abs(2 * n - halves) < 2 * Abs(2 * m - halves)
            \/ 2 * Abs(2 * n - halves) = 2 * Abs(2 * m - halves) /\ n >= m

(***************************************************************************)
(* C11 as stated: for every feed, every edge that is emitted has a         *)
(* travelTimeSec from 0 to 3600.                                           *)
(***************************************************************************)
C11_TravelTimesWithinAnHour ==
    Wrote =>
        \A i \in DOMAIN network.edges :
            /\ ~IsNaN(network.edges[i].travelTimeSec)
            /\ 0 <= network.edges[i].travelTimeSec
            /\ network.edges[i].travelTimeSec <= 3600

(***************************************************************************)
(* C12: the travelTimeSec of each emitted edge is the median of the travel *)
(* times collected for its key, the mean of the two central values for an  *)
(* even number of them, rounded to the nearest integer; [100, 100, 300]    *)
(* gives 100 and [100, 200] gives 150.  (Travel times that are numbers:    *)
(* there is no median of a list with a NaN in it.)                         *)
(***************************************************************************)
C12_MedianOfCollectedTimes ==
    /\ MathRound(median(<<100, 100, 300>>, <<1, 2, 3>>)) = 100
    /\ MathRound(median(<<100, 200>>, <<1, 2, 3>>)) = 150
    /\ Wrote =>
           /\ Len(network.edges) = Len(ret.edgeTravelTimes)
           /\ \A i \in DOMAIN network.edges :
                  ~HasNaN(TimesOfKey(i)) =>
                      network.edges[i].travelTimeSec
                          = Nearest(StatisticalMedian(TimesOfKey(i)))

\* 200 s and then 100 s collected for a key give 150 s
C12_Witness ==
    /\ Wrote
    /\ \E i \in DOMAIN network.edges :
           /\ TimesOfKey(i) = <<200, 100>>
           /\ network.edges[i].travelTimeSec = 150
           /\ network.edges[i].routeId = RouteOne

(***************************************************************************)
(* C13: a travel time that is negative gets 86400 added before it is       *)
(* tested: every trip from 23:59:50 to 00:00:20 adds a travel time of 30   *)
(* seconds to its key, and no travel time collected is negative.           *)
(***************************************************************************)
C13_OvernightCorrection ==
    Wrote =>
        /\ \A i \in DOMAIN ret.edgeTravelTimes :
               \A j \in DOMAIN TimesOfKey(i) :
                   IsNaN(TimesOfKey(i)[j]) \/ TimesOfKey(i)[j] >= 0
        /\ \A route \in {RouteOne, RouteTwo} :
               LET overnight ==
                       { t \in DOMAIN call.input.trips :
                           /\ call.input.trips[t].route = route
                           /\ call.input.trips[t].leg = PlatformLeg
                           /\ call.input.trips[t].times
                                  = TimePair(TimeStr(23, 59, 50), TimeStr(0, 0, 20)) }
                   key == <<"P", "|", "Q", "|">> \o route
               IN overnight # {} =>
                      /\ MapHas(ret.edgeTravelTimes, key)
                      /\ Count(MapGet(ret.edgeTravelTimes, key), 30)
                             = Cardinality(overnight)

\* an overnight trip is the only trip of its key: the edge has 30 seconds
C13_Witness ==
    /\ Wrote
    /\ call.input.trips[2].times = TimePair(TimeStr(23, 59, 50), TimeStr(0, 0, 20))
    /\ \E i \in DOMAIN network.edges :
           /\ TimesOfKey(i) = <<30>>
           /\ network.edges[i].travelTimeSec = 30

\* a before b in the order of strings: at the first place where they differ
\* a has the smaller code unit, or a has ended
Precedes(a, b) ==
    \E k \in 1..(Len(b)) :
        /\ \A n \in 1..(k - 1) : n \in DOMAIN a /\ a[n] = b[n]
        /\ \/ k = Len(a) + 1
           \/ k \in DOMAIN a /\ CodeUnit(a[k]) < CodeUnit(b[k])

(***************************************************************************)
(* C14: the routesServed of every emitted station is in ascending order    *)
(* (the order of strings) and names no route twice.                        *)
(***************************************************************************)
C14_RoutesServedSorted ==
    Wrote =>
        \A n \in DOMAIN network.stations :
            \A i, j \in DOMAIN network.stations[n].routesServed :
                i < j => Precedes(network.stations[n].routesServed[i],
                                  network.stations[n].routesServed[j])

\* route 2 stops at P with two trips, before and after a trip of route 10
C14_Witness ==
    /\ Wrote
    /\ call.input.trips[1].route = RouteOne
    /\ call.input.trips[2].route = RouteTwo
    /\ call.input.trips[3].route = RouteOne
    /\ \E n \in DOMAIN network.stations :
           /\ network.stations[n].id = <<"P">>
           /\ network.stations[n].routesServed = << <<"1", "0">>, <<"2">> >>

\* a file of the feed is there and its header lacks a column the script reads
LacksColumn(feed) ==
    \E file \in Files :
        /\ ~feed[file].missing
        /\ \E i \in DOMAIN HeaderOf(file) :
               indexOf(feed[file].header, HeaderOf(file)[i]) = -1

LacksFile(feed) == \E file \in Files : feed[file].missing

(***************************************************************************)
(* C15 as stated: when the header of one of the four files lacks a         *)
(* required column, the run fails and no network is written.               *)
(***************************************************************************)
C15_MissingColumnFails ==
    (BuildDone /\ LacksColumn(call.feed)) =>
        /\ ret.exit = 1
        /\ ~ret.written

(***************************************************************************)
(* C16: when one of the four files is missing, the run ends with exit      *)
(* code 1 and network.json is not written.                                 *)
(***************************************************************************)
C16_MissingFileAborts ==
    (BuildDone /\ LacksFile(call.feed)) =>
        /\ ret.exit = 1
        /\ ~ret.written
        /\ network = [stations |-> <<>>, edges |-> <<>>]

\* trips.txt, the third file read, is missing
C16_Witness ==
    /\ BuildDone
    /\ call.feed.trips.missing
    /\ ~call.feed.stops.missing
    /\ ret.exit = 1
    /\ ~ret.written

\* the station a stop belongs to, as stops.txt declares it
DeclaredParent(stopId) ==
    LET row == CHOOSE i \in DOMAIN StopFields : StopFields[i].stop_id = stopId
    IN IF StopFields[row].parent_station # <<>>
       THEN StopFields[row].parent_station
       ELSE stopId

\* the trips whose travel time is collected
SurvivingTrips(trips) ==
    { t \in DOMAIN trips :
        /\ DeclaredParent(trips[t].leg.from) # DeclaredParent(trips[t].leg.to)
        /\ CollectedOrSkipped(AdjustedTravelTime(
               Minus(timeToSeconds(trips[t].times.arrival),
                     timeToSeconds(trips[t].times.departure)))) # <<>> }

\* the (from station, to station, route) of the trips whose time is collected
SurvivingTriples(trips) ==
    { << DeclaredParent(trips[t].leg.from), DeclaredParent(trips[t].leg.to),
         trips[t].route >> : t \in SurvivingTrips(trips) }

CompleteFeed == call.input.missing = "none" /\ call.input.dropped = NoColumn

(***************************************************************************)
(* C18 as stated: there is exactly one emitted edge for every (from        *)
(* station, to station, route) with at least one collected travel time,    *)
(* and none besides; edges of different triples are never merged.          *)
(***************************************************************************)
C18_OneEdgePerTriple ==
    (Wrote /\ CompleteFeed) =>
        /\ { << network.edges[i].fromId, network.edges[i].toId,
                network.edges[i].routeId >> : i \in DOMAIN network.edges }
               = SurvivingTriples(call.input.trips)
        /\ Len(network.edges) = Cardinality(SurvivingTriples(call.input.trips))

\* the trips between two stops of one station
WithinAStation(trips) ==
    { t \in DOMAIN trips :
        DeclaredParent(trips[t].leg.from) = DeclaredParent(trips[t].leg.to) }

(***************************************************************************)
(* C24 as stated: a pair of consecutive stops of the same parent station   *)
(* adds no travel time to any key, and no emitted edge has a fromId equal  *)
(* to its toId.                                                            *)
(***************************************************************************)
C24_NoEdgeWithinAStation ==
    (Wrote /\ CompleteFeed) =>
        /\ \A t \in WithinAStation(call.input.trips) :
               ~MapHas(ret.edgeTravelTimes,
                       EdgeKey(DeclaredParent(call.input.trips[t].leg.from),
                               DeclaredParent(call.input.trips[t].leg.to),
                               call.input.trips[t].route))
        /\ \A i \in DOMAIN network.edges :
               network.edges[i].fromId # network.edges[i].toId

\* the ids of the emitted stations
StationIdsOf(net) == { net.stations[n].id : n \in DOMAIN net.stations }

(***************************************************************************)
(* C28 as stated: for every feed, the fromId and the toId of every emitted *)
(* edge are ids of emitted stations.                                       *)
(***************************************************************************)
C28_EdgeEndpointsAreStations ==
    Wrote =>
        \A i \in DOMAIN network.edges :
            /\ network.edges[i].fromId \in StationIdsOf(network)
            /\ network.edges[i].toId \in StationIdsOf(network)


(***************************************************************************)
(* The shared-graph specification: one Graph is built from the network,    *)
(* and several calls of findReachableStations run on it side by side, each *)
(* a step at a time.  A call's dist and queue are its own (lines 46, 50);  *)
(* the Graph is the one object the calls have in common.                   *)
(***************************************************************************)
MaxSearches == 2        \* calls of findReachableStations under way at once

SharedNetworks ==
    { [stations |-> EngineStations,
       edges |-> << Edge("A", "B", 60, "2"), Edge("B", "C", 60, "1"),
                    Edge("B", "A", 0, "1") >>],
      [stations |-> EngineStations,
       edges |-> << Edge("A", "C", 120, "3"), Edge("A", "B", 0, "1"),
                    Edge("B", "C", 60, "1") >>] }

SharedStarts == { << Start("A", 0) >>, << Start("C", 0), Start("A", 100) >> }

SharedBudgets == {60, 200}

\* a call that has not been made
IdleSearch ==
    [pc |-> "idle", startStations |-> <<>>, maxTimeSec |-> 0,
     dist |-> <<>>, queue |-> <<>>, result |-> <<>>, beside |-> {}]

\* the calls under way
Running == { p \in DOMAIN searches : searches[p].pc = "loop" }

SharedInit ==
    /\ network \in SharedNetworks
    /\ call = NoCall
    /\ ret = <<>>
    /\ loading = TRUE
    /\ error = FALSE
    /\ loaded = FALSE
    /\ officeLocation = NoLocation
    /\ travelTimeMinutes = 45
    /\ isochrones = <<>>
    /\ isochroneCache = <<>>
    /\ log = <<>>
    /\ meta = [of |-> <<>>, inserts |-> 0, hitOldest |-> FALSE]
    /\ visited = 0
    /\ sharedGraph = buildGraph(network)
    /\ searches = [p \in 1..MaxSearches |-> IdleSearch]

\* mutant: an iteration consumes the list of edges it walked
GraphConsumedByIter(graph, currentId) ==
    IF GraphHas(graph, currentId) THEN [graph EXCEPT ![currentId] = <<>>]
    ELSE graph

\* lines 63-95: the Graph after an iteration; the iteration reads it with
\* graph.get and for-of, and writes to dist and queue only
GraphAfterIter(graph, currentId) == graph

\* lines 46-61: the call is made; dist and queue are created, seeded and sorted
\* (beside: history, the calls that were under way when this one was made)
StartSearch(p, startStations, maxTimeSec) ==
    /\ searches[p].pc = "idle"
    /\ LET seeded == SeedStarts([dist |-> <<>>, queue |-> <<>>],
                                startStations, 1, maxTimeSec)
       IN searches' = [searches EXCEPT ![p] =
              [pc |-> "loop", startStations |-> startStations,
               maxTimeSec |-> maxTimeSec, dist |-> seeded.dist,
               queue |-> SortQueue(seeded.queue), result |-> <<>>,
               beside |-> Running]]
    /\ UNCHANGED <<network, call, ret, componentVars, sharedGraph>>

\* lines 63-95: one iteration of the while loop of call p
StepSearch(p) ==
    /\ searches[p].pc = "loop"
    /\ searches[p].queue # <<>>
    /\ LET st == SearchIter([dist |-> searches[p].dist, queue |-> searches[p].queue],
                            searches[p].maxTimeSec, sharedGraph)
       IN searches' = [searches EXCEPT ![p].dist = st.dist, ![p].queue = st.queue]
    /\ sharedGraph' = GraphAfterIter(sharedGraph, Head(searches[p].queue)[2])
    /\ UNCHANGED <<network, call, ret, componentVars>>

\* lines 63, 98-105: the queue is empty; the call returns the filtered dist
FinishSearch(p) ==
    /\ searches[p].pc = "loop"
    /\ searches[p].queue = <<>>
    /\ searches' = [searches EXCEPT
           ![p].pc = "done",
           ![p].result = FilterWithinLimit(searches[p].dist, searches[p].maxTimeSec)]
    /\ UNCHANGED <<network, call, ret, componentVars, sharedGraph>>

NextShared ==
    \/ \E p \in 1..MaxSearches, s \in SharedStarts, b \in SharedBudgets :
           StartSearch(p, s, b)
    \/ \E p \in 1..MaxSearches : StepSearch(p)
    \/ \E p \in 1..MaxSearches : FinishSearch(p)
    \/ Isochrone(Location(BaseLat), 660)

SpecShared == SharedInit /\ [][NextShared]_vars

\* the call's arguments, once it is made
Arguments(search) == <<search.startStations, search.maxTimeSec>>

\* what the call returns when it runs alone on the Graph of the network
Alone(search, net) ==
    findReachableStations(search.startStations, search.maxTimeSec, buildGraph(net))

\* C20: the calls treat the graph, the network and the start list as
\* read-only: no step of a search or of createIsochrone changes the shared
\* Graph or the network, a call's start list stays as it was passed, and every
\* call that ran interleaved with others on the shared Graph returns what it
\* returns alone
C20_SharedGraphReadOnly ==
    [][ /\ sharedGraph' = sharedGraph
        /\ network' = network
        /\ \A p \in DOMAIN searches :
              /\ searches[p].pc # "idle" => Arguments(searches'[p]) = Arguments(searches[p])
              /\ searches'[p].pc = "done" =>
                     searches'[p].result = Alone(searches'[p], network) ]_vars

\* two calls with different arguments overlapped on a Graph with a cycle,
\* beside a createIsochrone call, and both returned more than their seeds
C20_Witness ==
    /\ \E p, q \in DOMAIN searches :
          /\ p # q
          /\ q \in searches[p].beside
          /\ searches[p].pc = "done" /\ searches[q].pc = "done"
          /\ Arguments(searches[p]) # Arguments(searches[q])
          /\ Len(searches[p].result) = 3 /\ Len(searches[q].result) >= 2
    /\ call.fn = "createIsochrone"

(***************************************************************************)
(* The termination specification: one call of findReachableStations runs   *)
(* its while loop an iteration at a time, on any Graph of MaxEdges edges   *)
(* drawn from a pool with zero-weight edges, cycles and zero-weight        *)
(* cycles.  A call that is made keeps running: JavaScript runs the loop    *)
(* to its end without interruption, hence the weak fairness of its steps.  *)
(***************************************************************************)
LoopEdgePool ==
    { Edge("A", "B", 0, "1"), Edge("B", "A", 0, "1"), Edge("B", "C", 60, "1"),
      Edge("C", "A", 0, "2"), Edge("A", "A", 0, "3") }

LoopNetworks ==
    { [stations |-> EngineStations, edges |-> edges] :
          edges \in [1..MaxEdges -> LoopEdgePool] }

LoopBudgets == {0, 60, 200}

LoopInit ==
    /\ network \in LoopNetworks
    /\ call = NoCall
    /\ ret = <<>>
    /\ loading = TRUE
    /\ error = FALSE
    /\ loaded = FALSE
    /\ officeLocation = NoLocation
    /\ travelTimeMinutes = 45
    /\ isochrones = <<>>
    /\ isochroneCache = <<>>
    /\ log = <<>>
    /\ meta = [of |-> <<>>, inserts |-> 0, hitOldest |-> FALSE]
    /\ visited = 0
    /\ sharedGraph = buildGraph(network)
    /\ searches = [p \in 1..MaxSearches |-> IdleSearch]

NextLoop ==
    \/ \E s \in StartChoices, b \in LoopBudgets : StartSearch(1, s, b)
    \/ StepSearch(1)
    \/ FinishSearch(1)

SpecLoop ==
    LoopInit /\ [][NextLoop]_vars /\ WF_vars(StepSearch(1)) /\ WF_vars(FinishSearch(1))

\* C21: the search always terminates: on every graph, with zero-weight edges
\* and cycles, and for every budget, a call of findReachableStations that has
\* entered its while loop eventually finds the queue empty and returns
C21_SearchTerminates ==
    (searches[1].pc = "loop") ~> (searches[1].pc = "done" /\ searches[1].queue = <<>>)

\* a call returned all three stations on a Graph whose edges all weigh zero
\* and lead back to a start station
C21_Witness ==
    /\ searches[1].pc = "done"
    /\ Len(searches[1].result) = 3
    /\ \E id \in DOMAIN sharedGraph : \E i \in DOMAIN sharedGraph[id] :
           /\ sharedGraph[id][i].travelTimeSec = 0
           /\ sharedGraph[id][i].toId = "A"
           /\ id = "C"
    /\ \A id \in DOMAIN sharedGraph : \A i \in DOMAIN sharedGraph[id] :
           sharedGraph[id][i].travelTimeSec = 0

(***************************************************************************)
(* SubwayMap.tsx: what the component renders for what useNetworkData       *)
(* returns.  null is a record with isNull; a view is the class of its root *)
(* element, the text in it, whether the map is in it, and the ids of the   *)
(* sources inside the map.                                                 *)
(***************************************************************************)
Null == [isNull |-> TRUE]

\* new Error(message)
Error(message) == [isNull |-> FALSE, message |-> message]

FeatureCollection(features) == [isNull |-> FALSE, features |-> features]

\* lines 153-159
LoadingView ==
    [root |-> "loading-container", text |-> <<"Loading subway network...">>,
     map |-> FALSE, search |-> FALSE, sources |-> {}]

\* lines 161-167
ErrorView(err) ==
    [root |-> "error-container", text |-> <<"Error: ", err.message>>,
     map |-> FALSE, search |-> FALSE, sources |-> {}]

\* lines 139-151: the route ids of the edges; no edges when edges is null
edgesByRoute(edges) ==
    IF edges.isNull THEN {}
    ELSE { edges.features[i].routeId : i \in DOMAIN edges.features }

\* lines 169-307: the search box when there is a token, the map, in it a
\* source for every route and one for the stations when stations is not null
MapView(stations, edges, apiToken) ==
    [root |-> "subway-map-container", text |-> <<>>,
     map |-> TRUE, search |-> apiToken # "",
     sources |-> { <<"edges", routeId>> : routeId \in edgesByRoute(edges) }
                 \cup (IF stations.isNull THEN {} ELSE { <<"stations", "">> })]

\* mutant: the error is tested before loading
SubwayMapErrorFirst(hook, apiToken) ==
    IF ~hook.error.isNull THEN ErrorView(hook.error)
    ELSE IF hook.loading THEN LoadingView
    ELSE MapView(hook.stations, hook.edges, apiToken)

\* lines 153-169: the three returns of the component
SubwayMap(hook, apiToken) ==
    IF hook.loading THEN LoadingView
    ELSE IF ~hook.error.isNull THEN ErrorView(hook.error)
    ELSE MapView(hook.stations, hook.edges, apiToken)

(***************************************************************************)
(* The render specification: the component is rendered, again and again,   *)
(* with whatever useNetworkData returns (SubwayMap.test.tsx mocks the      *)
(* hook, so every combination of its fields is an input).                  *)
(***************************************************************************)
EdgeFeature(routeId) == [routeId |-> routeId]

HookErrors == {Null, Error("Failed to load network data"), Error("Unknown error")}

HookStations == {Null, FeatureCollection(<<>>), FeatureCollection(<<"A", "B">>)}

HookEdges ==
    {Null, FeatureCollection(<< EdgeFeature("1") >>),
     FeatureCollection(<< EdgeFeature("1"), EdgeFeature("2"), EdgeFeature("1") >>)}

HookResults ==
    [stations : HookStations, edges : HookEdges, loading : BOOLEAN,
     error : HookErrors]

ApiTokens == {"", "pk.test"}

RenderInit ==
    /\ network = [stations |-> <<>>, edges |-> <<>>]
    /\ call = NoCall
    /\ ret = <<>>
    /\ ComponentInit

\* render(<SubwayMap />) with the hook returning hook
Render(hook, apiToken) ==
    /\ call' = [fn |-> "SubwayMap", hook |-> hook, apiToken |-> apiToken]
    /\ ret' = SubwayMap(hook, apiToken)
    /\ loading' = hook.loading
    /\ error' = ~hook.error.isNull
    /\ UNCHANGED <<network, loaded, officeLocation, travelTimeMinutes, isochrones,
                   isochroneCache, log, meta, visited, searchVars>>

NextRender == \E hook \in HookResults, apiToken \in ApiTokens : Render(hook, apiToken)

SpecRender == RenderInit /\ [][NextRender]_vars

Rendered == call.fn = "SubwayMap"

\* the three things a view can show
ShowsLoading(view) == \E i \in DOMAIN view.text : view.text[i] = "Loading subway network..."

ShowsError(view) == view.text # <<>> /\ view.text[1] = "Error: "

ShowsMap(view) == view.map

\* how many of the three a view shows
ViewsShown(view) ==
    Cardinality({ k \in {"loading", "error", "map"} :
                    \/ k = "loading" /\ ShowsLoading(view)
                    \/ k = "error" /\ ShowsError(view)
                    \/ k = "map" /\ ShowsMap(view) })

\* C22: SubwayMap renders exactly one of three views: the loading message
\* and no map while loading is true; otherwise the error message and neither
\* map nor loading message when error is set; otherwise the map, also when
\* stations, edges or both are null
C22_ExactlyOneView ==
    Rendered =>
        /\ ViewsShown(ret) = 1
        /\ ShowsLoading(ret) <=> call.hook.loading
        /\ ShowsError(ret) <=> ~call.hook.loading /\ ~call.hook.error.isNull
        /\ ShowsError(ret) => ret.text = <<"Error: ", call.hook.error.message>>
        /\ ShowsMap(ret) <=> ~call.hook.loading /\ call.hook.error.isNull

\* the map was rendered with stations and edges both null
C22_Witness ==
    /\ Rendered
    /\ ShowsMap(ret)
    /\ call.hook.stations.isNull /\ call.hook.edges.isNull
    /\ ret.sources = {}

(***************************************************************************)
(* C26 as stated: createIsochrone returns null exactly when no station     *)
(* within walking range has a walking time within the budget; a station    *)
(* whose walking time equals the budget is a start like any other.         *)
(***************************************************************************)
C26_NullExactlyWhenNoStart ==
    IsoDone =>
        (ret.kind = "null"
            <=> QualifyingStarts(call.origin, network, call.maxTimeSec) = {})

\* createIsochrone for the origin and the network of the call, with a budget
WithBudget(maxTravelTimeSec) ==
    createIsochrone(call.origin, network, maxTravelTimeSec,
                    DEFAULT_MAX_WALK_DISTANCE_MILES, DEFAULT_MAX_WALK_DISTANCE_MILES)

\* every station listed in result is listed in larger, with a time not larger
ListedNoLater(result, larger) ==
    \A i \in DOMAIN result.reachableStations :
        \E j \in DOMAIN larger.reachableStations :
            /\ larger.reachableStations[j].stationId
                   = result.reachableStations[i].stationId
            /\ larger.reachableStations[j].travelTimeSec
                   <= result.reachableStations[i].travelTimeSec

(***************************************************************************)
(* C29: createIsochrone is monotonic in the budget: when it returns a      *)
(* result for a budget, it returns a result for every larger budget, for   *)
(* the same origin and network, and every station listed with the smaller  *)
(* budget is listed with the larger one with a travelTimeSec that is not   *)
(* larger.                                                                 *)
(***************************************************************************)
C29_IsochroneMonotonic ==
    (IsoDone /\ ret.kind = "result") =>
        \A b2 \in { b \in IsoBudgets : b >= call.maxTimeSec } :
            /\ WithBudget(b2).kind = "result"
            /\ ListedNoLater(ret, WithBudget(b2))

\* with 420 s two stations are listed, A on foot and C over the edge from A;
\* with 900 s all three are
C29_Witness ==
    /\ IsoDone
    /\ ret.kind = "result"
    /\ call.origin = Location(BaseLat)
    /\ call.maxTimeSec = 420
    /\ Len(ret.reachableStations) = 2
    /\ Len(WithBudget(900).reachableStations) = 3
    /\ \E i \in DOMAIN network.edges : network.edges[i] = Edge("A", "C", 120, "3")

(***************************************************************************)
(* Order independence of the search (engine specification)                 *)
(***************************************************************************)
\* every order of the elements of a sequence
Reorderings(seq) ==
    { [i \in DOMAIN seq |-> seq[order[i]]] : order \in Arrangements(DOMAIN seq) }

\* C23: the result of findReachableStations does not depend on the order in
\* which equal tentative times are expanded: every order of network.edges
\* (and with it every order of the edges inside the adjacency lists) and
\* every order of the start-station list gives the same map of station to
\* distance
C23_OrderIndependent ==
    SearchDone =>
        \A edges \in Reorderings(network.edges) :
            \A startStations \in Reorderings(call.startStations) :
                LET other == findReachableStations(startStations, call.maxTimeSec,
                                 buildGraph([network EXCEPT !.edges = edges]))
                IN NoDuplicateKeys(other) /\ MapAsFunction(other) = MapAsFunction(ret)

\* two start stations seeded at the same time, and two edges from A to B of
\* different times, the longer one first in A's list; B is reached with the
\* shorter one
C23_Witness ==
    /\ SearchDone
    /\ call.startStations = << Start("C", 0), Start("A", 100) >>
    /\ \E i, j \in DOMAIN network.edges :
          /\ i < j
          /\ network.edges[i] = Edge("A", "B", 60, "2")
          /\ network.edges[j] = Edge("A", "B", 0, "1")
    /\ MapHas(ret, "B") /\ MapGet(ret, "B") = 0
    /\ ret[1][1] = "C"

(***************************************************************************)
(* preprocess-gtfs.ts: parseCSV.  The content of a file is a sequence of   *)
(* characters; the result is, for every line, the sequence of its fields.  *)
(***************************************************************************)
Quote == "\""

Comma == ","

Newline == "\n"

\* the white space String.prototype.trim removes
Whitespace == {" ", "\t", "\r", Newline}

\* content.trim()
RECURSIVE Trim(_)
Trim(content) ==
    IF content = <<>> THEN <<>>
    ELSE IF content[1] \in Whitespace THEN Trim(Tail(content))
    ELSE IF content[Len(content)] \in Whitespace
    THEN Trim(SubSeq(content, 1, Len(content) - 1))
    ELSE content

\* mutant: every comma ends a field, the quotes are dropped
ParseCharAnyComma(st, char) ==
    IF char = Quote THEN st
    ELSE IF char = Comma
    THEN [st EXCEPT !.result = Append(@, st.current), !.current = <<>>]
    ELSE [st EXCEPT !.current = Append(@, char)]

\* lines 22-32: one character of the line
ParseChar(st, char) ==
    IF char = Quote THEN [st EXCEPT !.inQuotes = ~@]
    ELSE IF char = Comma /\ ~st.inQuotes
    THEN [st EXCEPT !.result = Append(@, st.current), !.current = <<>>]
    ELSE [st EXCEPT !.current = Append(@, char)]

RECURSIVE ParseChars(_, _, _)
ParseChars(st, line, i) ==
    IF i > Len(line) THEN st
    ELSE ParseChars(ParseChar(st, line[i]), line, i + 1)

\* lines 16-35: the fields of one line
ParseLine(line) ==
    LET st == ParseChars([result |-> <<>>, current |-> <<>>, inQuotes |-> FALSE],
                         line, 1)
    IN Append(st.result, st.current)

\* lines 14-15: content.trim().split('\n')
LinesOf(content) == Split(Trim(content), Newline, <<>>)

\* lines 13-36
parseCSV(content) ==
    [i \in DOMAIN LinesOf(content) |-> ParseLine(LinesOf(content)[i])]

(***************************************************************************)
(* The parser specification: parseCSV is applied to the content of a file  *)
(***************************************************************************)
MaxContentLen == 5      \* characters of a file

CsvAlphabet == {"a", Comma, Quote, Newline}

Contents == UNION { [1..n -> CsvAlphabet] : n \in 0..MaxContentLen }

ParseInit ==
    /\ network = [stations |-> <<>>, edges |-> <<>>]
    /\ call = NoCall
    /\ ret = <<>>
    /\ ComponentInit

Parse(content) ==
    /\ call.fn = "none"
    /\ call' = [fn |-> "parseCSV", content |-> content]
    /\ ret' = parseCSV(content)
    /\ UNCHANGED <<network, cacheVars>>

NextParse == \E content \in Contents : Parse(content)

SpecParse == ParseInit /\ [][NextParse]_vars

ParseDone == call.fn = "parseCSV"

\* the commas of a line that an even number of quotes precede
CommasOutsideQuotes(line) ==
    { i \in DOMAIN line :
        /\ line[i] = Comma
        /\ Cardinality({ j \in 1..(i - 1) : line[j] = Quote }) % 2 = 0 }

\* the line without its quotes, and with the commas outside quotes marked
\* as the ends of fields
Marked(line) ==
    SelectSeq([i \in DOMAIN line |->
                  IF i \in CommasOutsideQuotes(line) THEN "end" ELSE line[i]],
              LAMBDA c : c # Quote)

\* the fields put together again, with the mark between them
RECURSIVE Joined(_)
Joined(fields) ==
    IF Len(fields) = 1 THEN fields[1]
    ELSE fields[1] \o <<"end">> \o Joined(Tail(fields))

\* C25: parseCSV handles quoted fields: a comma inside a double-quoted field
\* does not split the field, so every parsed line has one more field than
\* the line has commas outside quotes, the fields are the pieces of the line
\* between these commas, and no quote character is part of a field
C25_QuotedFields ==
    ParseDone =>
        /\ Len(ret) = Len(LinesOf(call.content))
        /\ \A n \in DOMAIN ret :
              /\ Len(ret[n]) = Cardinality(CommasOutsideQuotes(LinesOf(call.content)[n])) + 1
              /\ Joined(ret[n]) = Marked(LinesOf(call.content)[n])
              /\ \A f \in DOMAIN ret[n] : \A k \in DOMAIN ret[n][f] : ret[n][f][k] # Quote

\* the line ",",a has the two fields , and a
C25_Witness ==
    /\ ParseDone
    /\ call.content = <<Quote, Comma, Quote, Comma, "a">>
    /\ ret = << << <<Comma>>, <<"a">> >> >>
=============================================================================
